---- MODULE Spec2Model ----
(***************************************************************************)
(* CodeWorm: the deduplication memory (core/state.py), the supervisor's    *)
(* cycle statistics and cycle execution (daemon.py), the scheduler job     *)
(* (scheduler/scheduler.py), the Ollama wait protocol, the push of a       *)
(* commit with its alerts, the teardown of run() and the dead man's switch *)
(* (daemon.py), and the trigger HumanLikeTrigger (scheduler/scheduler.py). *)
(***************************************************************************)
EXTENDS Integers, Sequences, FiniteSets, TLC

VARIABLES
    \* ---- memory: StateManager (core/state.py)
    rows,          \* the documented_snippets table
    now,           \* datetime.now(), in days
    recorded,      \* history: the (snippet, doc_type) pairs passed to record_documentation
    lastCheck,     \* history: the last should_document call and its result (a set of at most one)
    \* ---- Ollama wait: CodeWormDaemon._wait_for_ollama (daemon.py)
    running,                      \* CodeWormDaemon.running
    consecutive_ollama_failures,  \* CycleStats.consecutive_ollama_failures
    owPc,          \* where _wait_for_ollama stands: "probe", "sleep", "ready", "aborted"
    waitLeft,      \* the seconds the 1-second polling loop has still to sleep
    waits,         \* history: wait_seconds of each failed probe of the current outage
    \* ---- supervisor: CodeWormDaemon, CycleStats (daemon.py), scheduler job (scheduler.py)
    schedulerUp,   \* BackgroundScheduler.running
    dry_run,       \* CodeWormDaemon.dry_run
    cb,            \* the job's worker thread in _on_scheduled_task: "idle", "waiting"
    cbCycle,       \* the cycle whose future the callback waits on (0: none)
    cyc,           \* the coroutines _execute_documentation_cycle, by cycle number
    total_cycles,
    successful_cycles,
    failed_cycles,
    skipped_cycles,
    consecutive_failures,
    repos_exhausted,
    last_failure_reason,
    last_success,  \* CycleStats.last_success: {} for None, or {the clock of the last record_success}
    last_failure,  \* CycleStats.last_failure: {} for None, or {n} for datetime.now() of the n-th record_failure
    consecutive_push_failures,
    lastPush,      \* history: the last failed push and whether it was alerted (a set of at most one)
    pushes,        \* history: the outcome of every call of devlog.push(), "ok" or "failed", in order
    loop,          \* the event loop of run(): "running", "cleanup", "closed"
    \* ---- dead man's switch: CodeWormDaemon._dead_mans_switch (daemon.py)
    clock,         \* datetime.now() of the supervisor, in seconds since _start_time
    alerted,       \* the local latch of _dead_mans_switch
    swNext,        \* the clock at which the sleep of _dead_mans_switch ends
    swAlerts,      \* history: successful_cycles at each alert of the switch
    \* ---- settings (settings.telegram) and the notifier (core/notifier.py)
    notifier,              \* CodeWormDaemon.notifier is not None
    alert_after_failures,  \* settings.telegram.alert_after_failures
    alert_on_push_failure, \* settings.telegram.alert_on_push_failure
    publisher,             \* get_publisher() is not None (core/events.py)
    remote,                \* settings.devlog.remote is set
    ollamaAlerts,  \* history: consecutive_ollama_failures at each alert of the current outage
    failedProbes,  \* history: the failed health probes of the current outage
    \* ---- trigger: HumanLikeTrigger (scheduler/scheduler.py)
    timezone,         \* the IANA name given to ZoneInfo
    min_commits,
    max_commits,
    min_gap_minutes,
    daily_times,      \* HumanLikeTrigger._daily_times: local datetimes [wall, fold]
    current_day,      \* HumanLikeTrigger._current_day: {} for None, or {the local date}
    tnow,             \* the `now` of the last call of get_next_fire_time
    fired,            \* history: the last call of get_next_fire_time (a set of at most one)
    \* ---- devlog: DevLogRepository (git/ops.py)
    devlog,           \* the files of the working tree and the commits, oldest first
    \* ---- calls of operations outside the cycle
    preview,          \* history: the last call of get_schedule_preview (a set of at most one)
    scored,           \* the call of InterestScorer.score: its arguments and its result (sets of at most one)
    llm,              \* OllamaClient in generate_with_retry: the call, its loop and its history
    search,           \* history: the last search of _find_documentation_target (a set of at most one)
    counted,          \* history: the call of _generate_daily_schedule: its day, randint's value, its count
    loaded,           \* the call of load_settings: its sources and the settings it built (sets of at most one)
    \* ---- dashboard: ConnectionManager (dashboard/backend/ws.py)
    dash,             \* ConnectionManager.active and the broadcast in progress
    \* ---- startup: CodeWormDaemon._async_run (daemon.py)
    boot              \* history: the steps of the startup and the signal, in order

memVars == <<rows, now, recorded, lastCheck>>
olVars == <<running, consecutive_ollama_failures, owPc, waitLeft, waits>>
statVars == <<total_cycles, successful_cycles, failed_cycles, skipped_cycles,
              consecutive_failures, repos_exhausted, last_failure_reason, last_success,
              last_failure>>
dmVars == <<schedulerUp, dry_run, cb, cbCycle, cyc, statVars>>
cfgVars == <<notifier, alert_after_failures, alert_on_push_failure, publisher, remote>>
alVars == <<ollamaAlerts, failedProbes>>
pushVars == <<consecutive_push_failures, lastPush, pushes>>
swVars == <<clock, alerted, swNext, swAlerts>>
trigVars == <<timezone, min_commits, max_commits, min_gap_minutes, daily_times,
              current_day, tnow, fired>>
auxVars == <<preview, scored, llm, search, counted, loaded, dash, boot>>
restVars == <<cfgVars, alVars, pushVars, swVars, trigVars, auxVars, devlog, loop>>
vars == <<memVars, olVars, dmVars, restVars>>

(***************************************************************************)
(* Memory: core/state.py                                                   *)
(***************************************************************************)

\* Python None / SQL NULL.
NULL == "<null>"

\* Bound: the number of rows the table may hold.
MaxRows == 2

\* redocument_after_days: int = 90
DefaultRedocumentAfterDays == 90

\* The instants at which the clock is observed, in days.
Clock == {0, 30, 90}
Cooldowns == {0, 30, DefaultRedocumentAfterDays}

DocTypes == {"function_doc", "class_doc"}
Sources == {"v1", "v2"}

\* The (function_name, class_name) pairs the finders build: a function
\* (analyzer.py:146), a class (targets.py:157), a file (targets.py:83).
Entities == {<<"compute", NULL>>, <<NULL, "Foo">>, <<NULL, NULL>>}

Snippets ==
    [file_path : {"foo.py"}, function_name : {e[1] : e \in Entities},
     class_name : {e[2] : e \in Entities}, source : Sources]

CodeSnippets == {s \in Snippets : <<s.function_name, s.class_name>> \in Entities}

\* hashlib.sha256(source).hexdigest(): a digest, deterministic in the source.
hash_code(source) == <<"sha256", source>>

\* SQL `col = ?`: never true when either side is NULL.
SqlEq(a, b) == a # NULL /\ b # NULL /\ a = b
\* SQL `col IS ?`: NULL IS NULL is true.
SqlIs(a, b) == a = b

SetMax(S) == CHOOSE x \in S : \A y \in S : y <= x

\* The rows the cooldown query selects (state.py:159-172).
EntityRows(s, f) ==
    {r \in rows : /\ SqlEq(r.source_file, s.file_path)
                  /\ SqlEq(r.function_name, s.function_name)
                  /\ SqlIs(r.class_name, s.class_name)
                  /\ SqlEq(r.doc_type, f)}

\* Mutant: the exact-hash query dropped, only the cooldown decides.
should_document_no_hash(s, f, c) ==
    IF EntityRows(s, f) # {}
    THEN ~(now - SetMax({r.documented_at : r \in EntityRows(s, f)}) < c)
    ELSE TRUE

\* Mutant: the exact-hash query without its doc_type condition (as is_documented).
should_document_any_type(s, f, c) ==
    IF \E r \in rows : r.code_hash = hash_code(s.source)
    THEN FALSE
    ELSE IF EntityRows(s, f) # {}
         THEN ~(now - SetMax({r.documented_at : r \in EntityRows(s, f)}) < c)
         ELSE TRUE

\* Mutant: the cooldown query dropped, only the exact hash decides.
should_document_no_cooldown(s, f, c) ==
    ~(\E r \in rows : r.code_hash = hash_code(s.source) /\ r.doc_type = f)

\* StateManager.should_document
should_document(s, f, c) ==
    LET code_hash == hash_code(s.source)
    IN  IF \E r \in rows : r.code_hash = code_hash /\ r.doc_type = f
        THEN FALSE
        ELSE IF EntityRows(s, f) # {}
             THEN LET last_doc == SetMax({r.documented_at : r \in EntityRows(s, f)})
                  IN  IF now - last_doc < c THEN FALSE ELSE TRUE
             ELSE TRUE

\* The row record_documentation inserts (state.py:192-216).
NewRow(s, f) ==
    [id |-> Cardinality(rows) + 1,
     source_file |-> s.file_path,
     function_name |-> s.function_name,
     class_name |-> s.class_name,
     code_hash |-> hash_code(s.source),
     documented_at |-> now,
     doc_type |-> f]

\* StateManager.record_documentation
RecordDocumentation(s, f) ==
    /\ Cardinality(rows) < MaxRows
    /\ rows' = rows \cup {NewRow(s, f)}
    /\ recorded' = recorded \cup {<<s, f>>}
    /\ lastCheck' = {}
    /\ UNCHANGED <<now, olVars, dmVars, restVars>>

\* A call of StateManager.should_document; the store is only read. The
\* history keeps one call per change of the store or of the clock.
ShouldDocumentCall(s, f, c) ==
    /\ lastCheck = {}
    /\ lastCheck' = {[snippet |-> s, doc_type |-> f, cooldown |-> c,
                      result |-> should_document(s, f, c)]}
    /\ UNCHANGED <<rows, now, recorded, olVars, dmVars, restVars>>

\* Time passes.
Tick ==
    /\ \E t \in Clock : t > now /\ now' = t
    /\ lastCheck' = {}
    /\ UNCHANGED <<rows, recorded, olVars, dmVars, restVars>>

MemoryEmpty ==
    /\ rows = {}
    /\ now = 0
    /\ recorded = {}
    /\ lastCheck = {}

\* _wait_for_ollama before it is entered.
OllamaIdle ==
    /\ running = TRUE
    /\ consecutive_ollama_failures = 0
    /\ owPc = "probe"
    /\ waitLeft = 0
    /\ waits = <<>>

\* CodeWormDaemon.__init__: no cycle yet, CycleStats() all zero.
DaemonIdle ==
    /\ schedulerUp = FALSE
    /\ dry_run = FALSE
    /\ cb = "idle"
    /\ cbCycle = 0
    /\ cyc = <<>>
    /\ total_cycles = 0
    /\ successful_cycles = 0
    /\ failed_cycles = 0
    /\ skipped_cycles = 0
    /\ consecutive_failures = 0
    /\ repos_exhausted = {}
    /\ last_failure_reason = ""
    /\ last_success = {}
    /\ last_failure = {}
    /\ consecutive_push_failures = 0
    /\ lastPush = {}
    /\ pushes = <<>>
    /\ loop = "running"

\* check_interval = 300, alert_threshold = 2700 (daemon.py:343-344)
check_interval == 300
alert_threshold == 2700

\* _dead_mans_switch before its first check: the latch is open, the first
\* sleep ends check_interval seconds after _start_time.
SwitchIdle ==
    /\ clock = 0
    /\ alerted = FALSE
    /\ swNext = check_interval
    /\ swAlerts = <<>>

\* A daemon without a notifier (settings.telegram.enabled false or no bot
\* token, daemon.py:164-166), without a publisher and without a remote.
BareSettings ==
    /\ notifier = FALSE
    /\ alert_after_failures = 1
    /\ alert_on_push_failure = FALSE
    /\ publisher = FALSE
    /\ remote = FALSE

\* No outage has been observed yet.
NoOutage ==
    /\ ollamaAlerts = <<>>
    /\ failedProbes = 0

\* HumanLikeTrigger.__init__ (scheduler.py:90-113) with the defaults of
\* ScheduleSettings (config.py:63-69), before its first call.
TriggerIdle ==
    /\ timezone = "America/Los_Angeles"
    /\ min_commits = 12
    /\ max_commits = 18
    /\ min_gap_minutes = 30
    /\ daily_times = <<>>
    /\ current_day = {}
    /\ tnow = 0
    /\ fired = {}

\* The devlog repository before the first documentation of the run.
DevlogEmpty == devlog = [files |-> {}, commits |-> <<>>]

\* No preview was asked for.
PreviewIdle == preview = {}

\* The scorer is not called.
ScorerIdle == scored = {}

\* No generate_with_retry is in progress.
LlmIdle == llm = [pc |-> "idle"]

\* No target search was observed.
SearchIdle == search = {}

\* ConnectionManager() (ws.py:23-25) before any client and any broadcast.
\* active is the list; pc, idx and cur are the position of broadcast and of
\* its list iterator, disconnected its local list; seen, start, got and
\* done are history: the sockets ever connected, the subscribers at the
\* call of the last broadcast, the sockets whose send_text returned, and
\* whether that broadcast has returned.
NoSubscribers ==
    [active |-> <<>>, pc |-> "idle", idx |-> 1, cur |-> {}, disconnected |-> <<>>,
     seen |-> {}, start |-> {}, got |-> {}, done |-> FALSE]

\* _generate_daily_schedule and load_settings are not observed, the dashboard
\* has no subscriber and no broadcast.
CallsIdle ==
    /\ counted = {}
    /\ loaded = {}
    /\ dash = NoSubscribers
    /\ boot = <<>>

AuxIdle == DevlogEmpty /\ PreviewIdle /\ ScorerIdle /\ LlmIdle /\ SearchIdle /\ CallsIdle

MemNext ==
    \/ \E s \in CodeSnippets, f \in DocTypes : RecordDocumentation(s, f)
    \/ \E s \in CodeSnippets, f \in DocTypes, c \in Cooldowns : ShouldDocumentCall(s, f, c)
    \/ Tick

MemInit ==
    MemoryEmpty /\ OllamaIdle /\ DaemonIdle /\ BareSettings /\ NoOutage /\ AuxIdle /\ SwitchIdle /\ TriggerIdle

SpecMemory == MemInit /\ [][MemNext]_vars

(***************************************************************************)
(* Ollama wait protocol: daemon.py                                         *)
(***************************************************************************)

\* Bound: the number of consecutive failed health probes of one outage.
MaxOllamaFailures == 7

\* OLLAMA_WAIT_MAX = 300, and the literal 300 of get_ollama_wait_seconds
OLLAMA_WAIT_MAX == 300
\* OLLAMA_CHECK_INTERVAL = 10, and the literal 10 of get_ollama_wait_seconds
OLLAMA_CHECK_INTERVAL == 10

Min(a, b) == IF a < b THEN a ELSE b

\* CycleStats.get_ollama_wait_seconds, of the value of consecutive_ollama_failures
get_ollama_wait_seconds(failures) ==
    IF failures <= 1
    THEN OLLAMA_CHECK_INTERVAL
    ELSE Min(OLLAMA_WAIT_MAX, OLLAMA_CHECK_INTERVAL * 2 ^ (failures - 1))

\* health_check() succeeds: record_ollama_recovery, return True (daemon.py:209-216).
ProbeOk ==
    /\ owPc = "probe"
    /\ running
    /\ consecutive_ollama_failures' = 0
    /\ owPc' = "ready"
    /\ UNCHANGED <<running, waitLeft, waits, memVars, dmVars, restVars>>

\* daemon.py:228-229: the condition of the Ollama-unavailable alert, of the
\* value of consecutive_ollama_failures after record_ollama_failure.
SendsOllamaAlert(failures) ==
    notifier /\ failures = alert_after_failures

\* health_check() fails: wait_seconds is read, then the failure is recorded
\* (daemon.py:218-219), the alert is sent when its condition holds
\* (daemon.py:228-234), and the polling loop starts.
ProbeFail ==
    /\ owPc = "probe"
    /\ running
    /\ consecutive_ollama_failures < MaxOllamaFailures
    /\ LET wait_seconds == get_ollama_wait_seconds(consecutive_ollama_failures)
       IN  /\ waitLeft' = wait_seconds
           /\ waits' = Append(waits, wait_seconds)
    /\ consecutive_ollama_failures' = consecutive_ollama_failures + 1
    /\ ollamaAlerts' = IF SendsOllamaAlert(consecutive_ollama_failures + 1)
                       THEN Append(ollamaAlerts, consecutive_ollama_failures + 1)
                       ELSE ollamaAlerts
    /\ failedProbes' = failedProbes + 1
    /\ owPc' = "sleep"
    /\ UNCHANGED <<running, memVars, dmVars, cfgVars, pushVars, swVars, trigVars, auxVars, devlog, loop>>

\* One round of `for _ in range(wait_seconds)`: running is true, sleep(1).
SleepSecond ==
    /\ owPc = "sleep"
    /\ waitLeft > 0
    /\ running
    /\ waitLeft' = waitLeft - 1
    /\ UNCHANGED <<running, consecutive_ollama_failures, owPc, waits, memVars, dmVars, restVars>>

\* The polling loop is over: back to `while self.running`.
SleepOver ==
    /\ owPc = "sleep"
    /\ waitLeft = 0
    /\ owPc' = "probe"
    /\ UNCHANGED <<running, consecutive_ollama_failures, waitLeft, waits, memVars, dmVars, restVars>>

\* running is false at a check of the loops: return False (daemon.py:237-241).
WaitAborted ==
    /\ \/ owPc = "probe"
       \/ owPc = "sleep" /\ waitLeft > 0
    /\ ~running
    /\ owPc' = "aborted"
    /\ UNCHANGED <<running, consecutive_ollama_failures, waitLeft, waits, memVars, dmVars, restVars>>

\* _handle_shutdown: SIGINT or SIGTERM (daemon.py:178-185).
OllamaShutdown ==
    /\ running
    /\ owPc \in {"probe", "sleep"}
    /\ running' = FALSE
    /\ UNCHANGED <<consecutive_ollama_failures, owPc, waitLeft, waits, memVars, dmVars, restVars>>

\* A later health_check of _ensure_ollama_ready fails and the wait is entered
\* again (daemon.py:248-251): a new outage, whose first failed probe is the
\* one of _ensure_ollama_ready.
NextOutage ==
    /\ owPc = "ready"
    /\ running
    /\ waits # <<>>
    /\ owPc' = "probe"
    /\ waits' = <<>>
    /\ ollamaAlerts' = <<>>
    /\ failedProbes' = 1
    /\ UNCHANGED <<running, consecutive_ollama_failures, waitLeft, memVars, dmVars,
                   cfgVars, pushVars, swVars, trigVars, auxVars, devlog, loop>>

OllamaNext ==
    \/ ProbeOk
    \/ ProbeFail
    \/ SleepSecond
    \/ SleepOver
    \/ WaitAborted
    \/ OllamaShutdown
    \/ NextOutage

\* Bound: the largest alert_after_failures of the settings.
MaxAlertAfter == 3

\* The wait of _async_run at startup (daemon.py:306), for every setting of
\* the notifier.
OllamaInit ==
    /\ MemoryEmpty
    /\ OllamaIdle
    /\ DaemonIdle
    /\ notifier \in BOOLEAN
    /\ alert_after_failures \in 1 .. MaxAlertAfter
    /\ alert_on_push_failure = FALSE
    /\ publisher = FALSE
    /\ remote = FALSE
    /\ NoOutage
    /\ AuxIdle
    /\ SwitchIdle
    /\ TriggerIdle

SpecOllama == OllamaInit /\ [][OllamaNext]_vars

\* C10: while the probe keeps failing, the wait after the k-th consecutive
\* failed probe lasts min(300, 10 * 2^(k-1)) seconds: 10, 20, 40, 80, 160, 300, ...
C10_WaitDoublesFromTen ==
    \A k \in 1 .. Len(waits) :
        waits[k] = Min(OLLAMA_WAIT_MAX, OLLAMA_CHECK_INTERVAL * 2 ^ (k - 1))

\* C11: during one outage (a run of consecutive failed health probes ended
\* by a successful probe or by shutdown) the notifier receives exactly one
\* Ollama-unavailable alert when the run reaches alert_after_failures failed
\* probes, sent when consecutive_ollama_failures becomes alert_after_failures,
\* and none when the run is shorter.
C11_OneAlertPerOutage ==
    notifier =>
        /\ \A i \in 1 .. Len(ollamaAlerts) : ollamaAlerts[i] = alert_after_failures
        /\ Len(ollamaAlerts) <= 1
        /\ owPc \in {"ready", "aborted"} =>
              Len(ollamaAlerts) = (IF failedProbes >= alert_after_failures THEN 1 ELSE 0)

(***************************************************************************)
(* Supervisor: daemon.py, and the scheduler job of scheduler/scheduler.py  *)
(***************************************************************************)

\* Bound: the number of fires of the scheduler job that start a cycle.
MaxCycles == 3

\* Bound: the failed health probes of the Ollama wait inside one run of cycles.
MaxCycleProbeFailures == 1

\* The targets the finders can yield for the enabled repository; which of
\* them one search yields varies from call to call (targets.py: the random
\* drop of underscore names, the limit).
Candidates ==
    {[snippet |-> [file_path |-> "foo.py", function_name |-> "compute",
                   class_name |-> NULL, source |-> "v1"],
      doc_type |-> "function_doc"]}

\* Mutant: get_backoff_seconds without its cap.
get_backoff_seconds_uncapped(failures) ==
    IF failures <= 1 THEN 0 ELSE 30 * 2 ^ (failures - 1)

\* CycleStats.get_backoff_seconds, of the value of consecutive_failures
get_backoff_seconds(failures) ==
    IF failures <= 1 THEN 0 ELSE Min(300, 30 * 2 ^ (failures - 1))

\* Mutant: record_success that leaves the failure streak as it is.
record_success_keeps_streak ==
    /\ total_cycles' = total_cycles + 1
    /\ successful_cycles' = successful_cycles + 1
    /\ consecutive_ollama_failures' = 0
    /\ last_success' = {clock}
    /\ repos_exhausted' = {}
    /\ UNCHANGED <<consecutive_failures, failed_cycles, skipped_cycles, last_failure_reason,
                   last_failure>>

\* Mutant: record_success that forgets total_cycles.
record_success_no_total ==
    /\ successful_cycles' = successful_cycles + 1
    /\ consecutive_failures' = 0
    /\ consecutive_ollama_failures' = 0
    /\ last_success' = {clock}
    /\ repos_exhausted' = {}
    /\ UNCHANGED <<total_cycles, failed_cycles, skipped_cycles, last_failure_reason,
                   last_failure>>

\* CycleStats.record_success
record_success ==
    /\ total_cycles' = total_cycles + 1
    /\ successful_cycles' = successful_cycles + 1
    /\ consecutive_failures' = 0
    /\ consecutive_ollama_failures' = 0
    /\ last_success' = {clock}
    /\ repos_exhausted' = {}
    /\ UNCHANGED <<failed_cycles, skipped_cycles, last_failure_reason, last_failure>>

\* CycleStats.record_failure
record_failure(reason) ==
    /\ total_cycles' = total_cycles + 1
    /\ failed_cycles' = failed_cycles + 1
    /\ consecutive_failures' = consecutive_failures + 1
    /\ last_failure' = {failed_cycles + 1}
    /\ last_failure_reason' = reason
    /\ UNCHANGED <<successful_cycles, skipped_cycles, repos_exhausted, last_success>>

\* Mutant: record_skip that counts the skip as a failure too.
record_skip_as_failure(reason) ==
    /\ total_cycles' = total_cycles + 1
    /\ skipped_cycles' = skipped_cycles + 1
    /\ failed_cycles' = failed_cycles + 1
    /\ consecutive_failures' = consecutive_failures + 1
    /\ last_failure' = {failed_cycles + 1}
    /\ last_failure_reason' = reason
    /\ UNCHANGED <<successful_cycles, last_success>>

\* Mutant: record_skip that ends the streak of failures.
record_skip_ends_streak(reason) ==
    /\ total_cycles' = total_cycles + 1
    /\ skipped_cycles' = skipped_cycles + 1
    /\ consecutive_failures' = 0
    /\ last_failure_reason' = reason
    /\ UNCHANGED <<successful_cycles, failed_cycles, last_success, last_failure>>

\* CycleStats.record_skip
record_skip(reason) ==
    /\ total_cycles' = total_cycles + 1
    /\ skipped_cycles' = skipped_cycles + 1
    /\ last_failure_reason' = reason
    /\ UNCHANGED <<successful_cycles, failed_cycles, consecutive_failures, last_success,
                   last_failure>>

\* A coroutine _execute_documentation_cycle as run_coroutine_threadsafe submits it.
\*   slow:     it has reached an await with no bound below the callback's
\*             1800 s (the Ollama wait, the LLM generation)
\*   timedOut: future.result(timeout = 1800) of its callback raised TimeoutError
\*   exc:      an exception was raised inside it
\*   fails:    the record_failure calls made for it
\*   late:     what it did after its callback had timed out
\*   target:   the target _find_documentation_target returned (a set of at most one)
\*   sleep:    the seconds of the asyncio.sleep(backoff) it is in (0: in none)
\*   succ:     record_success was called for it
\*   statsRaised: _emit_stats raised in it
\*   generated: the LLM generations it started
\*   skipped:  {} or, once it has recorded a skip, what it did on the way:
\*             the repos_exhausted it logged with cycle_skipped_no_candidates
\*             and the event types it passed to _emit_event after it
NewCycle ==
    [pc |-> "start", slow |-> FALSE, timedOut |-> FALSE, exc |-> FALSE,
     fails |-> 0, late |-> {}, target |-> {}, sleep |-> 0,
     succ |-> FALSE, statsRaised |-> FALSE, generated |-> 0,
     skipped |-> {}]

\* enabled_repos of _find_documentation_target (daemon.py:477): the one
\* enabled repository of the settings.
enabled_repos == {"main"}

\* scheduler.get_next_run_time() is not None (scheduler.py:290-298): the job
\* is in the job store of the scheduler, which holds it from start() to
\* shutdown().
NextRunExists == schedulerUp

\* The events of `next_run = ...; if next_run: _emit_event("next_cycle", ...)`
\* (daemon.py:436-438).
NextCycleEvent == IF NextRunExists THEN <<"next_cycle">> ELSE <<>>

Cycles == 1 .. Len(cyc)

\* The coroutine has started and has not returned or raised yet.
Executing(c) == cyc[c].pc \notin {"start", "done", "raised"}

\* The event loop still runs the coroutines: inside run_until_complete of
\* _async_run or of _cleanup (daemon.py:272-274), before loop.close().
LoopOpen == loop # "closed"

Late(r, effects) == IF r.timedOut THEN [r EXCEPT !.late = @ \cup effects] ELSE r

\* The job fires; the executor runs _execute_task -> _on_scheduled_task, which
\* submits the coroutine and blocks in future.result(timeout = 1800). The job
\* has one instance at a time (add_job, scheduler.py:253-260): a fire while
\* the callback is still blocked runs nothing. `limit` bounds the fires of a run.
FireUpTo(limit) ==
    /\ schedulerUp
    /\ cb = "idle"
    /\ Len(cyc) < limit
    /\ cyc' = Append(cyc, NewCycle)
    /\ cb' = "waiting"
    /\ cbCycle' = Len(cyc) + 1
    /\ UNCHANGED <<schedulerUp, dry_run, statVars, memVars, olVars, restVars>>

Fire == FireUpTo(MaxCycles)

\* daemon.py:400-407: the failure backoff is read; a positive one is slept.
CycleStart(c) ==
    /\ LoopOpen
    /\ cyc[c].pc = "start"
    /\ LET backoff == get_backoff_seconds(consecutive_failures)
       IN  cyc' = [cyc EXCEPT ![c] =
                     [@ EXCEPT !.pc = IF backoff > 0 THEN "backoff" ELSE "ensure",
                               !.sleep = backoff]]
    /\ UNCHANGED <<schedulerUp, dry_run, cb, cbCycle, statVars, memVars, olVars, restVars>>

\* asyncio.sleep(backoff) returns.
BackoffOver(c) ==
    /\ LoopOpen
    /\ cyc[c].pc = "backoff"
    /\ cyc' = [cyc EXCEPT ![c] = [@ EXCEPT !.pc = "ensure", !.sleep = 0]]
    /\ UNCHANGED <<schedulerUp, dry_run, cb, cbCycle, statVars, memVars, olVars, restVars>>

\* _ensure_ollama_ready: one health_check; when it fails, _wait_for_ollama.
EnsureReady(c, healthy) ==
    /\ LoopOpen
    /\ cyc[c].pc = "ensure"
    /\ cyc' = [cyc EXCEPT ![c] =
                 IF healthy THEN [@ EXCEPT !.pc = "find"]
                 ELSE [@ EXCEPT !.pc = "ollama_wait", !.slow = TRUE]]
    /\ UNCHANGED <<schedulerUp, dry_run, cb, cbCycle, statVars, memVars, olVars, restVars>>

\* _wait_for_ollama inside a cycle: a probe succeeds.
CycleProbeOk(c) ==
    /\ LoopOpen
    /\ cyc[c].pc = "ollama_wait"
    /\ running
    /\ consecutive_ollama_failures' = 0
    /\ cyc' = [cyc EXCEPT ![c].pc = "find"]
    /\ UNCHANGED <<schedulerUp, dry_run, cb, cbCycle, statVars, memVars,
                   running, owPc, waitLeft, waits, restVars>>

\* _wait_for_ollama inside a cycle: a probe fails, and the wait is slept.
CycleProbeFail(c) ==
    /\ LoopOpen
    /\ cyc[c].pc = "ollama_wait"
    /\ running
    /\ consecutive_ollama_failures < MaxCycleProbeFailures
    /\ consecutive_ollama_failures' = consecutive_ollama_failures + 1
    /\ UNCHANGED <<schedulerUp, dry_run, cb, cbCycle, cyc, statVars, memVars,
                   running, owPc, waitLeft, waits, restVars>>

\* _wait_for_ollama returns False on shutdown, and the cycle returns (daemon.py:418-419).
CycleWaitAborted(c) ==
    /\ LoopOpen
    /\ cyc[c].pc = "ollama_wait"
    /\ ~running
    /\ cyc' = [cyc EXCEPT ![c].pc = "done"]
    /\ UNCHANGED <<schedulerUp, dry_run, cb, cbCycle, statVars, memVars, olVars, restVars>>

\* Of the targets the finders yield, those should_document lets through
\* (daemon.py:506-518).
Eligible(found) ==
    {t \in found :
        should_document(t.snippet, t.doc_type, DefaultRedocumentAfterDays)}

\* _find_documentation_target raises (the router, the scanner, the store):
\* the exception leaves the coroutine through `finally` (daemon.py:421-468).
FindRaises(c) ==
    /\ LoopOpen
    /\ cyc[c].pc = "find"
    /\ cyc' = [cyc EXCEPT ![c] = [@ EXCEPT !.pc = "raised", !.exc = TRUE]]
    /\ UNCHANGED <<schedulerUp, dry_run, cb, cbCycle, statVars, memVars, olVars, restVars>>

\* _find_documentation_target returns None, having changed nothing (it does
\* not add to repos_exhausted, daemon.py:470-520): record_skip, the log of
\* repos_exhausted, repos_exhausted.clear(), the next_cycle event, return
\* (daemon.py:423-439).
FindNone(c, found) ==
    /\ LoopOpen
    /\ cyc[c].pc = "find"
    /\ Eligible(found) = {}
    /\ record_skip("no_candidates")
    /\ repos_exhausted' = {}
    /\ cyc' = [cyc EXCEPT ![c] = Late([@ EXCEPT !.pc = "done",
                                                !.skipped =
                                                    {[exhausted |-> repos_exhausted,
                                                      events |-> NextCycleEvent]}],
                                      {"stats"})]
    /\ UNCHANGED <<schedulerUp, dry_run, cb, cbCycle, memVars, olVars, restVars>>

\* A target is found; _document_target starts the LLM generation
\* (daemon.py:441-448, 560-572).
FindTarget(c, t) ==
    /\ LoopOpen
    /\ cyc[c].pc = "find"
    /\ t \in Eligible({t})
    /\ cyc' = [cyc EXCEPT ![c] =
                 Late([@ EXCEPT !.pc = "generate", !.slow = TRUE, !.target = {t},
                                !.generated = @ + 1],
                      {"llm"})]
    /\ UNCHANGED <<schedulerUp, dry_run, cb, cbCycle, statVars, memVars, olVars, restVars>>

\* _document_target fails: the prompt, the LLM, the file write, the commit or
\* the memory write raises, `except` returns False (daemon.py:651-665), and
\* the cycle records a failure (daemon.py:456).
DocumentFails(c) ==
    /\ LoopOpen
    /\ cyc[c].pc = "generate"
    /\ record_failure("documentation_failed")
    /\ cyc' = [cyc EXCEPT ![c] =
                 Late([@ EXCEPT !.pc = "done", !.exc = TRUE, !.fails = @ + 1],
                      {"stats"})]
    /\ UNCHANGED <<schedulerUp, dry_run, cb, cbCycle, memVars, olVars, restVars>>

\* The targets of a repository with a function, a class and a file-level
\* entity.
Repository ==
    Candidates \cup
    {[snippet |-> [file_path |-> "foo.py", function_name |-> NULL,
                   class_name |-> "Foo", source |-> "v1"],
      doc_type |-> "class_doc"],
     [snippet |-> [file_path |-> "foo.py", function_name |-> NULL,
                   class_name |-> NULL, source |-> "v2"],
      doc_type |-> "function_doc"]}

\* str(e) of the exception of a failed push, as its words.
PushErrors ==
    {<<"connection", "timed", "out">>,
     <<"remote", "rejected", "GH013">>,
     <<"push", "declined", "Secret", "detected">>}

\* What devlog.push() does: it returns, or it raises with a message.
PushOk == [raised |-> FALSE, message |-> <<>>]
PushResults == {PushOk} \cup {[raised |-> TRUE, message |-> m] : m \in PushErrors}

\* str.lower(), word by word.
Lower(word) ==
    CASE word = "GH013" -> "gh013"
      [] word = "Secret" -> "secret"
      [] OTHER -> word

LowerAll(message) == [i \in 1 .. Len(message) |-> Lower(message[i])]

\* `needle in message`
Contains(message, needle) == \E i \in 1 .. Len(message) : message[i] = needle

\* daemon.py:641: "GH013" in error_str or "secret" in error_str.lower()
IsSecretViolation(error_str) ==
    Contains(error_str, "GH013") \/ Contains(LowerAll(error_str), "secret")

\* Mutant: the threshold alert only after alert_after_failures is exceeded.
PushAlert_after_exceeded(error_str, failures) ==
    IF notifier /\ alert_on_push_failure
    THEN IF IsSecretViolation(error_str) THEN "secret_scanning"
         ELSE IF failures > alert_after_failures THEN "error"
         ELSE "none"
    ELSE "none"

\* The alert of the push block (daemon.py:640-647), of str(e) and of
\* consecutive_push_failures after its increment: "secret_scanning"
\* (send_alert), "error" (send_error) or "none".
PushAlert(error_str, failures) ==
    IF notifier /\ alert_on_push_failure
    THEN IF IsSecretViolation(error_str) THEN "secret_scanning"
         ELSE IF failures >= alert_after_failures THEN "error"
         ELSE "none"
    ELSE "none"

\* Mutant: a failed push resets the streak of push failures.
PushAttempt_resets(push) ==
    /\ consecutive_push_failures' = 0
    /\ pushes' = Append(pushes, IF push.raised THEN "failed" ELSE "ok")
    /\ lastPush' = IF push.raised
                   THEN {[error |-> push.message,
                          failures |-> consecutive_push_failures + 1,
                          alert |-> PushAlert(push.message, consecutive_push_failures + 1)]}
                   ELSE {}

\* Mutant: a successful push leaves the streak of push failures as it is.
PushAttempt_success_keeps(push) ==
    /\ pushes' = Append(pushes, IF push.raised THEN "failed" ELSE "ok")
    /\ IF push.raised
       THEN /\ consecutive_push_failures' = consecutive_push_failures + 1
            /\ lastPush' = {[error |-> push.message,
                             failures |-> consecutive_push_failures + 1,
                             alert |-> PushAlert(push.message, consecutive_push_failures + 1)]}
       ELSE /\ UNCHANGED consecutive_push_failures
            /\ lastPush' = {}

\* The push block of _document_target (daemon.py:631-647).
PushAttempt(push) ==
    /\ pushes' = Append(pushes, IF push.raised THEN "failed" ELSE "ok")
    /\ IF push.raised
       THEN /\ consecutive_push_failures' = consecutive_push_failures + 1
            /\ lastPush' = {[error |-> push.message,
                             failures |-> consecutive_push_failures + 1,
                             alert |-> PushAlert(push.message, consecutive_push_failures + 1)]}
       ELSE /\ consecutive_push_failures' = 0
            /\ lastPush' = {}

\* LANGUAGE_EXTENSIONS (models.py:24-32), of the files of the repository: the
\* value of snippet.language.
LanguageOf(file_path) ==
    CASE file_path = "foo.py" -> "python"
      [] OTHER -> "unknown"

\* GeneratedDocumentation.snippet_filename: the name of the entity and the
\* short hash of its source.
snippet_filename(s) == <<s.function_name, hash_code(s.source)>>

\* Mutant: write_snippet that puts every file directly under snippets/.
write_snippet_flat(filename, language) == [dir |-> <<"snippets">>, name |-> filename]

\* DevLogRepository.write_snippet: the file <repo>/snippets/<language>/<filename>.
write_snippet(filename, language) == [dir |-> <<"snippets", language>>, name |-> filename]

\* write_snippet followed by DevLogRepository.commit(message, files = [file_path]).
WriteAndCommit(file_path) ==
    [files |-> devlog.files \cup {file_path},
     commits |-> Append(devlog.commits, {file_path})]

\* Mutant: _document_target that does not look at dry_run.
DocumentSucceeds_ignores_dry_run(c, t, push, readable) ==
    /\ LoopOpen
    /\ cyc[c].pc = "generate"
    /\ t \in cyc[c].target
    /\ rows' = rows \cup {NewRow(t.snippet, t.doc_type)}
    /\ recorded' = recorded \cup {<<t.snippet, t.doc_type>>}
    /\ devlog' = WriteAndCommit(write_snippet(snippet_filename(t.snippet),
                                              LanguageOf(t.snippet.file_path)))
    /\ IF remote THEN PushAttempt(push) ELSE UNCHANGED pushVars
    /\ record_success
    /\ LET raises == publisher /\ ~readable
       IN  cyc' = [cyc EXCEPT ![c] =
                     Late([@ EXCEPT !.pc = IF raises THEN "raised" ELSE "done",
                                    !.exc = @ \/ raises,
                                    !.succ = TRUE,
                                    !.statsRaised = raises],
                          {"commit", "memory", "stats"})]
    /\ UNCHANGED <<schedulerUp, dry_run, cb, cbCycle, now, lastCheck,
                   running, owPc, waitLeft, waits, cfgVars, alVars, swVars, trigVars,
                   auxVars, loop>>

\* _document_target returns True: in a dry run after the generation, else
\* after write_snippet, commit, record_documentation and, with a remote, the
\* push attempt; the cycle records a success and emits the stats
\* (daemon.py:450-454). _emit_stats reads the store when there is a publisher
\* (daemon.py:759-766): when the store cannot be read, get_stats raises and the
\* exception leaves the coroutine.
DocumentSucceeds(c, t, push, readable) ==
    /\ LoopOpen
    /\ cyc[c].pc = "generate"
    /\ t \in cyc[c].target
    /\ IF dry_run
       THEN UNCHANGED <<rows, recorded, devlog, pushVars>>
       ELSE /\ rows' = rows \cup {NewRow(t.snippet, t.doc_type)}
            /\ recorded' = recorded \cup {<<t.snippet, t.doc_type>>}
            /\ devlog' = WriteAndCommit(write_snippet(snippet_filename(t.snippet),
                                                      LanguageOf(t.snippet.file_path)))
            /\ IF remote THEN PushAttempt(push) ELSE UNCHANGED pushVars
    /\ record_success
    /\ LET raises == publisher /\ ~readable
       IN  cyc' = [cyc EXCEPT ![c] =
                     Late([@ EXCEPT !.pc = IF raises THEN "raised" ELSE "done",
                                    !.exc = @ \/ raises,
                                    !.succ = TRUE,
                                    !.statsRaised = raises],
                          IF dry_run THEN {"stats"} ELSE {"commit", "memory", "stats"})]
    /\ UNCHANGED <<schedulerUp, dry_run, cb, cbCycle, now, lastCheck,
                   running, owPc, waitLeft, waits, cfgVars, alVars, swVars, trigVars,
                   auxVars, loop>>

\* future.result returns: the coroutine has returned (daemon.py:380).
CallbackReturn ==
    /\ cb = "waiting"
    /\ cyc[cbCycle].pc = "done"
    /\ cb' = "idle"
    /\ cbCycle' = 0
    /\ UNCHANGED <<schedulerUp, dry_run, cyc, statVars, memVars, olVars, restVars>>

\* Mutant: the exception of the future is swallowed, no failure is recorded.
CallbackException_swallowed ==
    /\ cb = "waiting"
    /\ cyc[cbCycle].pc = "raised"
    /\ cb' = "idle"
    /\ cbCycle' = 0
    /\ UNCHANGED <<schedulerUp, dry_run, cyc, statVars, memVars, olVars, restVars>>

\* future.result re-raises the coroutine's exception (daemon.py:381-385).
CallbackException ==
    /\ cb = "waiting"
    /\ cyc[cbCycle].pc = "raised"
    /\ record_failure("task_error")
    /\ cyc' = [cyc EXCEPT ![cbCycle].fails = @ + 1]
    /\ cb' = "idle"
    /\ cbCycle' = 0
    /\ UNCHANGED <<schedulerUp, dry_run, memVars, olVars, restVars>>

\* future.result raises TimeoutError after 1800 s (daemon.py:380-385): the
\* failure is recorded, the future is not cancelled, the coroutine goes on.
\* The timeout can pass while the coroutine waits at an await with no shorter
\* bound, or once the loop is closed and the future can no longer complete.
CallbackTimeout ==
    /\ cb = "waiting"
    /\ cyc[cbCycle].slow \/ ~LoopOpen
    /\ cyc[cbCycle].pc \notin {"done", "raised"}
    /\ record_failure("task_error")
    /\ cyc' = [cyc EXCEPT ![cbCycle] = [@ EXCEPT !.timedOut = TRUE, !.fails = @ + 1]]
    /\ cb' = "idle"
    /\ cbCycle' = 0
    /\ UNCHANGED <<schedulerUp, dry_run, memVars, olVars, restVars>>

\* _handle_shutdown: SIGINT or SIGTERM (daemon.py:178-185).
Shutdown ==
    /\ running
    /\ running' = FALSE
    /\ schedulerUp' = FALSE
    /\ UNCHANGED <<dry_run, cb, cbCycle, cyc, statVars, memVars,
                   consecutive_ollama_failures, owPc, waitLeft, waits, restVars>>

\* The main loop `while self.running: await asyncio.sleep(1)` sees running
\* false at its next poll: _async_run returns, run() enters `finally` and runs
\* _cleanup on the loop (daemon.py:324-330, 272-274). No cycle is awaited.
MainLoopExit ==
    /\ ~running
    /\ loop = "running"
    /\ loop' = "cleanup"
    /\ UNCHANGED <<memVars, olVars, dmVars, cfgVars, alVars, pushVars, swVars, trigVars, auxVars, devlog>>

\* _cleanup has closed the LLM client and the notifier, and run() closes the
\* loop (daemon.py:253-261, 274-275): the coroutines still pending are never
\* resumed.
CleanupAndClose ==
    /\ loop = "cleanup"
    /\ loop' = "closed"
    /\ UNCHANGED <<memVars, olVars, dmVars, cfgVars, alVars, pushVars, swVars, trigVars, auxVars, devlog>>

\* After _async_run has waited for Ollama and started the scheduler
\* (daemon.py:306-315), whatever the settings and the time the wait took.
SchedulerStarted ==
    /\ MemoryEmpty
    /\ running = TRUE
    /\ consecutive_ollama_failures = 0
    /\ owPc = "ready"
    /\ waitLeft = 0
    /\ waits = <<>>
    /\ schedulerUp = TRUE
    /\ cb = "idle"
    /\ cbCycle = 0
    /\ cyc = <<>>
    /\ total_cycles = 0
    /\ successful_cycles = 0
    /\ failed_cycles = 0
    /\ skipped_cycles = 0
    /\ consecutive_failures = 0
    /\ repos_exhausted = {}
    /\ last_failure_reason = ""
    /\ last_success = {}
    /\ last_failure = {}
    /\ consecutive_push_failures = 0
    /\ lastPush = {}
    /\ pushes = <<>>
    /\ loop = "running"
    /\ NoOutage
    /\ AuxIdle
    /\ TriggerIdle

\* The started daemon when the startup took no time.
Started ==
    /\ SchedulerStarted
    /\ SwitchIdle

\* The started daemon without notifier, publisher and remote; dry_run is the
\* constructor's argument.
Init ==
    /\ Started
    /\ dry_run \in BOOLEAN
    /\ BareSettings

Next ==
    \/ Fire
    \/ \E c \in Cycles : CycleStart(c)
    \/ \E c \in Cycles : BackoffOver(c)
    \/ \E c \in Cycles, healthy \in BOOLEAN : EnsureReady(c, healthy)
    \/ \E c \in Cycles : CycleProbeOk(c)
    \/ \E c \in Cycles : CycleProbeFail(c)
    \/ \E c \in Cycles : CycleWaitAborted(c)
    \/ \E c \in Cycles : FindRaises(c)
    \/ \E c \in Cycles, found \in SUBSET Candidates : FindNone(c, found)
    \/ \E c \in Cycles, t \in Candidates : FindTarget(c, t)
    \/ \E c \in Cycles : DocumentFails(c)
    \/ \E c \in Cycles, t \in Candidates : DocumentSucceeds(c, t, PushOk, TRUE)
    \/ CallbackReturn
    \/ CallbackException
    \/ CallbackTimeout
    \/ Shutdown

Spec == Init /\ [][Next]_vars

\* Bound: the fires of a run of cycles that fail or are skipped.
MaxStreakCycles == 7

\* Cycles that end as a failure or as a skip while Ollama is healthy, each
\* over before the callback's timeout.
StreakNext ==
    \/ FireUpTo(MaxStreakCycles)
    \/ \E c \in Cycles : CycleStart(c)
    \/ \E c \in Cycles : BackoffOver(c)
    \/ \E c \in Cycles : EnsureReady(c, TRUE)
    \/ \E c \in Cycles : FindRaises(c)
    \/ \E c \in Cycles, found \in SUBSET Candidates : FindNone(c, found)
    \/ CallbackReturn
    \/ CallbackException

SpecStreak == Init /\ [][StreakNext]_vars

\* Bound: the fires of a run of cycles that fail, are skipped or succeed.
MaxSkipCycles == 4

\* Cycles that end as a failure, as a skip or as a success while Ollama is
\* healthy, each over before the callback's timeout.
SkipNext ==
    \/ FireUpTo(MaxSkipCycles)
    \/ \E c \in Cycles : CycleStart(c)
    \/ \E c \in Cycles : BackoffOver(c)
    \/ \E c \in Cycles : EnsureReady(c, TRUE)
    \/ \E c \in Cycles : FindRaises(c)
    \/ \E c \in Cycles, found \in SUBSET Candidates : FindNone(c, found)
    \/ \E c \in Cycles, t \in Candidates : FindTarget(c, t)
    \/ \E c \in Cycles : DocumentFails(c)
    \/ \E c \in Cycles, t \in Candidates : DocumentSucceeds(c, t, PushOk, TRUE)
    \/ CallbackReturn
    \/ CallbackException

SpecSkip == Init /\ [][SkipNext]_vars

\* The started daemon with a remote, for every setting of the notifier and of
\* the publisher.
DeliveryInit ==
    /\ Started
    /\ dry_run = FALSE
    /\ notifier \in BOOLEAN
    /\ alert_after_failures \in 1 .. MaxAlertAfter
    /\ alert_on_push_failure \in BOOLEAN
    /\ publisher \in BOOLEAN
    /\ remote = TRUE

\* Cycles over a repository of several targets while Ollama is healthy, each
\* over before the callback's timeout: the push of each commit succeeds or
\* fails, the store can or cannot be read when the stats are emitted.
DeliveryNext ==
    \/ FireUpTo(MaxCycles)
    \/ \E c \in Cycles : CycleStart(c)
    \/ \E c \in Cycles : BackoffOver(c)
    \/ \E c \in Cycles : EnsureReady(c, TRUE)
    \/ \E c \in Cycles, t \in Repository : FindTarget(c, t)
    \/ \E c \in Cycles : DocumentFails(c)
    \/ \E c \in Cycles, t \in Repository, push \in PushResults, readable \in BOOLEAN :
          DocumentSucceeds(c, t, push, readable)
    \/ CallbackReturn
    \/ CallbackException

SpecDelivery == DeliveryInit /\ [][DeliveryNext]_vars

\* The daemon started as a dry run, with a remote, for every setting of the
\* notifier and of the publisher.
DryRunInit ==
    /\ Started
    /\ dry_run = TRUE
    /\ notifier \in BOOLEAN
    /\ alert_after_failures \in 1 .. MaxAlertAfter
    /\ alert_on_push_failure \in BOOLEAN
    /\ publisher \in BOOLEAN
    /\ remote = TRUE

SpecDryRun == DryRunInit /\ [][DeliveryNext]_vars

\* Bound: the fires of a run whose pushes are counted.
MaxPushCycles == 4

\* The started daemon, as a dry run or not, with or without a remote.
PushInit ==
    /\ Started
    /\ dry_run \in BOOLEAN
    /\ notifier = FALSE
    /\ alert_after_failures = 1
    /\ alert_on_push_failure = FALSE
    /\ publisher = FALSE
    /\ remote \in BOOLEAN

\* Cycles that are skipped, fail or succeed while Ollama is healthy, each
\* over before the callback's timeout; the push of a commit succeeds or fails.
PushNext ==
    \/ FireUpTo(MaxPushCycles)
    \/ \E c \in Cycles : CycleStart(c)
    \/ \E c \in Cycles : BackoffOver(c)
    \/ \E c \in Cycles : EnsureReady(c, TRUE)
    \/ \E c \in Cycles, found \in SUBSET Candidates : FindNone(c, found)
    \/ \E c \in Cycles, t \in Repository : FindTarget(c, t)
    \/ \E c \in Cycles : DocumentFails(c)
    \/ \E c \in Cycles, t \in Repository, push \in PushResults :
          DocumentSucceeds(c, t, push, TRUE)
    \/ CallbackReturn

SpecPush == PushInit /\ [][PushNext]_vars

\* Bound: the fires of a run in which the daemon is shut down.
MaxShutdownCycles == 3

\* The supervisor with the teardown of run(): the cycles, the callback with
\* its timeout, the signal, the exit of the main loop and the cleanup.
ShutdownNext ==
    \/ FireUpTo(MaxShutdownCycles)
    \/ \E c \in Cycles : CycleStart(c)
    \/ \E c \in Cycles : BackoffOver(c)
    \/ \E c \in Cycles, healthy \in BOOLEAN : EnsureReady(c, healthy)
    \/ \E c \in Cycles : CycleProbeOk(c)
    \/ \E c \in Cycles : CycleProbeFail(c)
    \/ \E c \in Cycles : CycleWaitAborted(c)
    \/ \E c \in Cycles : FindRaises(c)
    \/ \E c \in Cycles, found \in SUBSET Candidates : FindNone(c, found)
    \/ \E c \in Cycles, t \in Candidates : FindTarget(c, t)
    \/ \E c \in Cycles : DocumentFails(c)
    \/ \E c \in Cycles, t \in Candidates : DocumentSucceeds(c, t, PushOk, TRUE)
    \/ CallbackReturn
    \/ CallbackException
    \/ CallbackTimeout
    \/ Shutdown
    \/ MainLoopExit
    \/ CleanupAndClose

SpecShutdown == Init /\ [][ShutdownNext]_vars

\* The started daemon documenting for real, without notifier, publisher and
\* remote.
DocumentingInit ==
    /\ Started
    /\ dry_run = FALSE
    /\ BareSettings

\* Cycles over the repository of one function while Ollama is healthy, each
\* over before the callback's timeout.
DocumentingNext ==
    \/ FireUpTo(MaxCycles)
    \/ \E c \in Cycles : CycleStart(c)
    \/ \E c \in Cycles : BackoffOver(c)
    \/ \E c \in Cycles : EnsureReady(c, TRUE)
    \/ \E c \in Cycles, found \in SUBSET Candidates : FindNone(c, found)
    \/ \E c \in Cycles, t \in Candidates : FindTarget(c, t)
    \/ \E c \in Cycles : DocumentFails(c)
    \/ \E c \in Cycles, t \in Candidates : DocumentSucceeds(c, t, PushOk, TRUE)
    \/ CallbackReturn
    \/ Shutdown

SpecDocumenting == DocumentingInit /\ [][DocumentingNext]_vars

\* The file _document_target writes for a target.
SnippetFile(t) ==
    write_snippet(snippet_filename(t.snippet), LanguageOf(t.snippet.file_path))

\* A statement of _document_target after the generation raises at stage
\* `at`: `except` returns False (daemon.py:651-665) and the cycle records a
\* failure (daemon.py:456).
DocumentFailsAt(c, at) ==
    /\ LoopOpen
    /\ cyc[c].pc = at
    /\ record_failure("documentation_failed")
    /\ cyc' = [cyc EXCEPT ![c] =
                 Late([@ EXCEPT !.pc = "done", !.exc = TRUE, !.fails = @ + 1],
                      {"stats"})]

\* devlog.write_snippet returns (daemon.py:586-593).
WriteFile(c, t) ==
    /\ LoopOpen
    /\ ~dry_run
    /\ cyc[c].pc = "generate"
    /\ t \in cyc[c].target
    /\ devlog' = [devlog EXCEPT !.files = @ \cup {SnippetFile(t)}]
    /\ cyc' = [cyc EXCEPT ![c].pc = "written"]
    /\ UNCHANGED <<schedulerUp, dry_run, cb, cbCycle, statVars, memVars, olVars,
                   cfgVars, alVars, pushVars, swVars, trigVars, auxVars, loop>>

\* The outcomes of devlog.commit (ops.py:152-183): a commit, "Nothing to
\* commit" when the file is tracked with the same content, an error of git.
CommitResults(t) ==
    {"committed", "git_error"}
    \cup IF \E i \in DOMAIN devlog.commits : SnippetFile(t) \in devlog.commits[i]
         THEN {"nothing_to_commit"} ELSE {}

\* Mutant: "Nothing to commit" is not raised, the cycle goes on without a commit.
CommitFile_goes_on(c, t, result) ==
    /\ LoopOpen
    /\ cyc[c].pc = "written"
    /\ t \in cyc[c].target
    /\ result \in CommitResults(t)
    /\ devlog' = IF result = "committed"
                 THEN [devlog EXCEPT !.commits = Append(@, {SnippetFile(t)})]
                 ELSE devlog
    /\ cyc' = [cyc EXCEPT ![c].pc = "committed"]
    /\ UNCHANGED <<schedulerUp, dry_run, cb, cbCycle, statVars, memVars, olVars,
                   cfgVars, alVars, pushVars, swVars, trigVars, auxVars, loop>>

\* devlog.commit(message, files = [file_path]) (daemon.py:595-598).
CommitFile(c, t, result) ==
    /\ t \in cyc[c].target
    /\ result \in CommitResults(t)
    /\ IF result = "committed"
       THEN /\ LoopOpen
            /\ cyc[c].pc = "written"
            /\ devlog' = [devlog EXCEPT !.commits = Append(@, {SnippetFile(t)})]
            /\ cyc' = [cyc EXCEPT ![c].pc = "committed"]
            /\ UNCHANGED <<schedulerUp, dry_run, cb, cbCycle, statVars, memVars, olVars,
                           cfgVars, alVars, pushVars, swVars, trigVars, auxVars, loop>>
       ELSE /\ DocumentFailsAt(c, "written")
            /\ UNCHANGED <<schedulerUp, dry_run, cb, cbCycle, memVars, olVars, restVars>>

\* state.record_documentation (daemon.py:600-605): the row is inserted, or
\* the store raises.
RecordCommit(c, t, stored) ==
    /\ t \in cyc[c].target
    /\ recorded' = recorded \cup {<<t.snippet, t.doc_type>>}
    /\ IF stored
       THEN /\ LoopOpen
            /\ cyc[c].pc = "committed"
            /\ rows' = rows \cup {NewRow(t.snippet, t.doc_type)}
            /\ cyc' = [cyc EXCEPT ![c].pc = "recorded"]
            /\ UNCHANGED <<schedulerUp, dry_run, cb, cbCycle, statVars, now, lastCheck,
                           olVars, restVars>>
       ELSE /\ DocumentFailsAt(c, "committed")
            /\ UNCHANGED <<schedulerUp, dry_run, cb, cbCycle, rows, now, lastCheck,
                           olVars, restVars>>

\* The push block, `return True`, and record_success of the cycle
\* (daemon.py:630-649, 451-454).
PushAndReturn(c, push) ==
    /\ LoopOpen
    /\ cyc[c].pc = "recorded"
    /\ IF remote THEN PushAttempt(push) ELSE UNCHANGED pushVars
    /\ record_success
    /\ cyc' = [cyc EXCEPT ![c] =
                 Late([@ EXCEPT !.pc = "done", !.succ = TRUE],
                      {"commit", "memory", "stats"})]
    /\ UNCHANGED <<schedulerUp, dry_run, cb, cbCycle, memVars,
                   running, owPc, waitLeft, waits, cfgVars, alVars, swVars, trigVars,
                   auxVars, devlog, loop>>

\* The started daemon, not a dry run, with and without a remote.
StepsInit ==
    /\ Started
    /\ dry_run = FALSE
    /\ notifier = FALSE
    /\ alert_after_failures = 1
    /\ alert_on_push_failure = FALSE
    /\ publisher = FALSE
    /\ remote \in BOOLEAN

\* Cycles over a repository of several targets, _document_target statement by
\* statement, each statement returning or raising.
StepsNext ==
    \/ FireUpTo(MaxCycles)
    \/ \E c \in Cycles : CycleStart(c)
    \/ \E c \in Cycles : BackoffOver(c)
    \/ \E c \in Cycles : EnsureReady(c, TRUE)
    \/ \E c \in Cycles, t \in Repository : FindTarget(c, t)
    \/ \E c \in Cycles : DocumentFails(c)
    \/ \E c \in Cycles, t \in Repository : WriteFile(c, t)
    \/ \E c \in Cycles, t \in Repository,
          result \in {"committed", "nothing_to_commit", "git_error"} : CommitFile(c, t, result)
    \/ \E c \in Cycles, t \in Repository, stored \in BOOLEAN : RecordCommit(c, t, stored)
    \/ \E c \in Cycles, push \in PushResults : PushAndReturn(c, push)
    \/ CallbackReturn

SpecSteps == StepsInit /\ [][StepsNext]_vars

(***************************************************************************)
(* Startup: CodeWormDaemon._async_run, daemon.py                           *)
(*                                                                         *)
(* The initial wait is _wait_for_ollama step by step: the test of          *)
(* `while self.running` and the awaited health_check() are two steps, and  *)
(* the signal handler, installed with signal.signal, runs whenever the     *)
(* signal arrives, also while a coroutine is suspended in an await.        *)
(***************************************************************************)

\* The step was taken by this run of the daemon.
BootDone(step) == \E i \in 1 .. Len(boot) : boot[i] = step

\* The position of the first record of the step in boot.
BootIndex(step) == CHOOSE i \in 1 .. Len(boot) : boot[i] = step /\ \A j \in 1 .. i - 1 : boot[j] # step

\* Everything but the Ollama wait, the scheduler flag, boot and loop.
StartupUnchanged ==
    UNCHANGED <<memVars, dry_run, cb, cbCycle, cyc, statVars, cfgVars, pushVars, swVars,
                trigVars, preview, scored, llm, search, counted, loaded, dash, devlog>>

\* `while self.running` is true and health_check() is awaited
\* (daemon.py:208-209).
StartupProbe ==
    /\ loop = "running"
    /\ owPc = "probe"
    /\ running
    /\ owPc' = "in_flight"
    /\ UNCHANGED <<running, consecutive_ollama_failures, waitLeft, waits, schedulerUp,
                   alVars, boot, loop>>
    /\ StartupUnchanged

\* The awaited health_check() returns True: record_ollama_recovery, return
\* True (daemon.py:209-216). running is not read between the two.
StartupProbeOk ==
    /\ owPc = "in_flight"
    /\ consecutive_ollama_failures' = 0
    /\ owPc' = "ready"
    /\ boot' = Append(boot, "health_ok")
    /\ UNCHANGED <<running, waitLeft, waits, schedulerUp, alVars, loop>>
    /\ StartupUnchanged

\* The awaited health_check() returns False: the failure is recorded, the
\* alert is sent when its condition holds and the polling loop starts
\* (daemon.py:218-236).
StartupProbeFail ==
    /\ owPc = "in_flight"
    /\ consecutive_ollama_failures < MaxOllamaFailures
    /\ LET wait_seconds == get_ollama_wait_seconds(consecutive_ollama_failures)
       IN  /\ waitLeft' = wait_seconds
           /\ waits' = Append(waits, wait_seconds)
    /\ consecutive_ollama_failures' = consecutive_ollama_failures + 1
    /\ ollamaAlerts' = IF SendsOllamaAlert(consecutive_ollama_failures + 1)
                       THEN Append(ollamaAlerts, consecutive_ollama_failures + 1)
                       ELSE ollamaAlerts
    /\ failedProbes' = failedProbes + 1
    /\ owPc' = "sleep"
    /\ UNCHANGED <<running, schedulerUp, boot, loop>>
    /\ StartupUnchanged

\* _wait_for_ollama returned True: client.prewarm() is awaited and returns,
\* whatever its result (daemon.py:310-312, client.py:109-140).
Prewarm ==
    /\ loop = "running"
    /\ owPc = "ready"
    /\ ~BootDone("prewarm")
    /\ boot' = Append(boot, "prewarm")
    /\ UNCHANGED <<olVars, schedulerUp, alVars, loop>>
    /\ StartupUnchanged

\* set_task_callback and scheduler.start() (daemon.py:314-315,
\* scheduler.py:243-268): the job is added and the scheduler runs.
StartScheduler ==
    /\ loop = "running"
    /\ BootDone("prewarm")
    /\ ~BootDone("scheduler_start")
    /\ schedulerUp' = TRUE
    /\ boot' = Append(boot, "scheduler_start")
    /\ UNCHANGED <<olVars, alVars, loop>>
    /\ StartupUnchanged

\* asyncio.create_task(self._dead_mans_switch()) (daemon.py:322).
ArmSwitch ==
    /\ loop = "running"
    /\ BootDone("scheduler_start")
    /\ ~BootDone("switch_armed")
    /\ boot' = Append(boot, "switch_armed")
    /\ UNCHANGED <<olVars, schedulerUp, alVars, loop>>
    /\ StartupUnchanged

\* _handle_shutdown during the startup (daemon.py:178-185): running is
\* cleared; scheduler.stop shuts the scheduler down only when it runs
\* (scheduler.py:270-276).
StartupShutdown ==
    /\ loop = "running"
    /\ running
    /\ running' = FALSE
    /\ schedulerUp' = FALSE
    /\ boot' = Append(boot, "shutdown")
    /\ UNCHANGED <<consecutive_ollama_failures, owPc, waitLeft, waits, alVars, loop>>
    /\ StartupUnchanged

\* _async_run returns: after `shutdown_during_ollama_wait`, or when the main
\* loop `while self.running` sees running false (daemon.py:306-308, 324-330).
StartupReturn ==
    /\ loop = "running"
    /\ \/ owPc = "aborted"
       \/ BootDone("switch_armed") /\ ~running
    /\ loop' = "cleanup"
    /\ UNCHANGED <<olVars, schedulerUp, alVars, boot>>
    /\ StartupUnchanged

\* The daemon as constructed, run() entered (daemon.py:263-272), for every
\* setting of the notifier.
StartupInit == OllamaInit

\* The startup, the signal at any moment of it, the teardown, and the first
\* fire of the job of a scheduler that runs.
StartupNext ==
    \/ StartupProbe
    \/ StartupProbeOk
    \/ StartupProbeFail
    \/ SleepSecond
    \/ SleepOver
    \/ WaitAborted
    \/ Prewarm
    \/ StartScheduler
    \/ ArmSwitch
    \/ StartupShutdown
    \/ StartupReturn
    \/ CleanupAndClose
    \/ Fire
    \/ \E c \in Cycles : CycleStart(c)

SpecStartup == StartupInit /\ [][StartupNext]_vars

(***************************************************************************)
(* Dashboard: ConnectionManager, dashboard/backend/ws.py                   *)
(*                                                                         *)
(* broadcast runs on the event loop with the websocket endpoints: the      *)
(* other coroutines run while it is suspended in `await ws.send_text`.     *)
(* `for ws in self.active` is the list iterator of Python: it keeps an     *)
(* index into the list and reads the list again at every step.             *)
(***************************************************************************)

\* Bound: the WebSocket objects of a run.
MaxSockets == 3

Sockets == 1 .. MaxSockets

\* The elements of a list.
Elements(list) == {list[i] : i \in 1 .. Len(list)}

\* list.remove(x): the list without its first x.
Remove(list, x) ==
    LET i == CHOOSE k \in 1 .. Len(list) : list[k] = x /\ \A j \in 1 .. k - 1 : list[j] # x
    IN  [k \in 1 .. Len(list) - 1 |-> IF k < i THEN list[k] ELSE list[k + 1]]

\* ConnectionManager.disconnect (ws.py:42-44).
disconnect(active, websocket) ==
    IF websocket \in Elements(active) THEN Remove(active, websocket) ELSE active

RECURSIVE DisconnectAll(_, _)
\* `for ws in disconnected: self.disconnect(ws)` (ws.py:56-57).
DisconnectAll(active, disconnected) ==
    IF disconnected = <<>> THEN active
    ELSE DisconnectAll(disconnect(active, Head(disconnected)), Tail(disconnected))

\* One step of `for ws in self.active` from the record d of a broadcast: the
\* iterator yields self.active[idx] and send_text is awaited, or the list is
\* exhausted, the failed sockets are removed and broadcast returns
\* (ws.py:51-57).
Iterate(d) ==
    IF d.idx <= Len(d.active)
    THEN [d EXCEPT !.pc = "sending", !.cur = {d.active[d.idx]}, !.idx = d.idx + 1]
    ELSE [d EXCEPT !.pc = "idle", !.cur = {}, !.done = TRUE,
                   !.active = DisconnectAll(d.active, d.disconnected)]

DashUnchanged ==
    UNCHANGED <<memVars, olVars, dmVars, cfgVars, alVars, pushVars, swVars, trigVars,
                preview, scored, llm, search, counted, loaded, boot, devlog, loop>>

\* websocket_endpoint of a new client: manager.connect appends the socket
\* (ws.py:27-29, 114). It runs when broadcast is not running or is suspended.
Connect(websocket) ==
    /\ websocket \notin dash.seen
    /\ dash' = [dash EXCEPT !.active = Append(@, websocket), !.seen = @ \cup {websocket}]
    /\ DashUnchanged

\* The client of a socket goes away: receive_text raises WebSocketDisconnect
\* in websocket_endpoint, which calls manager.disconnect (ws.py:116-125).
Disconnect(websocket) ==
    /\ websocket \in Elements(dash.active)
    /\ dash' = [dash EXCEPT !.active = disconnect(@, websocket)]
    /\ DashUnchanged

\* broadcast is called (ws.py:46-51): `disconnected` is empty and the
\* iterator stands before the first element.
Broadcast ==
    /\ dash.pc = "idle"
    /\ dash' = Iterate([dash EXCEPT !.idx = 1, !.disconnected = <<>>, !.got = {},
                                     !.start = Elements(dash.active),
                                     !.done = FALSE])
    /\ DashUnchanged

\* The awaited send_text returns, and the socket has the message, or raises,
\* and the socket is noted in `disconnected`; the loop goes on (ws.py:52-55).
SendText(ok) ==
    /\ dash.pc = "sending"
    /\ \E ws \in dash.cur :
          dash' = Iterate(IF ok THEN [dash EXCEPT !.got = @ \cup {ws}]
                          ELSE [dash EXCEPT !.disconnected = Append(@, ws)])
    /\ DashUnchanged

\* The manager of a dashboard that has just started: no subscriber.
DashInit ==
    /\ MemoryEmpty
    /\ OllamaIdle
    /\ DaemonIdle
    /\ BareSettings
    /\ NoOutage
    /\ DevlogEmpty /\ PreviewIdle /\ ScorerIdle /\ LlmIdle /\ SearchIdle
    /\ counted = {}
    /\ loaded = {}
    /\ boot = <<>>
    /\ dash = NoSubscribers
    /\ SwitchIdle
    /\ TriggerIdle

DashNext ==
    \/ \E websocket \in Sockets : Connect(websocket)
    \/ \E websocket \in Sockets : Disconnect(websocket)
    \/ Broadcast
    \/ \E ok \in BOOLEAN : SendText(ok)

SpecDash == DashInit /\ [][DashNext]_vars

(***************************************************************************)
(* Dead man's switch: daemon.py                                            *)
(***************************************************************************)

\* Bound: the fires of a run watched by the dead man's switch.
MaxSwitchCycles == 2

\* Bound: the steps of the clock.
MaxTicks == 42

\* The clock advances by half a check interval, so that a success falls on a
\* check or between two checks, up to MaxClock seconds.
TickSeconds == check_interval \div 2
MaxClock == MaxTicks * TickSeconds

\* The seconds _async_run took from _start_time (set in __init__,
\* daemon.py:144) to the creation of the switch task (daemon.py:322): the
\* startup wait for Ollama has no upper limit.
StartupWaits == {0, TickSeconds, alert_threshold}

\* self._start_time as a clock value
start_time == 0

\* Mutant: the trigger condition of the switch without its latch.
SwitchTriggers_unlatched(age, latch) == age > alert_threshold

\* `age > alert_threshold and not alerted` (daemon.py:352)
SwitchTriggers(age, latch) == age > alert_threshold /\ ~latch

\* `self.stats.last_success or self._start_time` (daemon.py:350)
SwitchReference == IF last_success = {} THEN start_time ELSE CHOOSE t \in last_success : TRUE

\* (datetime.now() - reference).total_seconds() (daemon.py:351)
SwitchAge == clock - SwitchReference

\* Time passes. The sleep of the switch ends at swNext or, when the loop is
\* busy, up to one step later.
TimePasses ==
    /\ clock < MaxClock
    /\ clock <= swNext
    /\ clock' = clock + TickSeconds
    /\ UNCHANGED <<alerted, swNext, swAlerts, memVars, olVars, dmVars, cfgVars, trigVars, auxVars, devlog,
                   alVars, pushVars, loop>>

\* One turn of the loop of _dead_mans_switch after its sleep
\* (daemon.py:349-366): the alert is sent only with a notifier, the latch is
\* set with or without one.
DeadMansCheck ==
    /\ LoopOpen
    /\ running
    /\ clock >= swNext
    /\ IF SwitchTriggers(SwitchAge, alerted)
       THEN /\ swAlerts' = IF notifier THEN Append(swAlerts, successful_cycles) ELSE swAlerts
            /\ alerted' = TRUE
       ELSE IF SwitchAge <= alert_threshold /\ alerted
       THEN /\ alerted' = FALSE
            /\ UNCHANGED swAlerts
       ELSE UNCHANGED <<alerted, swAlerts>>
    /\ swNext' = clock + check_interval
    /\ UNCHANGED <<clock, memVars, olVars, dmVars, cfgVars, alVars, pushVars, trigVars, auxVars, devlog, loop>>

\* The started daemon and its switch task, created after the startup wait.
SwitchInit ==
    /\ SchedulerStarted
    /\ dry_run = TRUE
    /\ notifier \in BOOLEAN
    /\ alert_after_failures = 1
    /\ alert_on_push_failure = FALSE
    /\ publisher = FALSE
    /\ remote = FALSE
    /\ clock \in StartupWaits
    /\ alerted = FALSE
    /\ swNext = clock + check_interval
    /\ swAlerts = <<>>

\* The cycles of a healthy daemon, each over before the callback's timeout,
\* while time passes and the switch checks.
SwitchNext ==
    \/ FireUpTo(MaxSwitchCycles)
    \/ \E c \in Cycles : CycleStart(c)
    \/ \E c \in Cycles : EnsureReady(c, TRUE)
    \/ \E c \in Cycles, found \in SUBSET Candidates : FindNone(c, found)
    \/ \E c \in Cycles, t \in Candidates : FindTarget(c, t)
    \/ \E c \in Cycles : DocumentFails(c)
    \/ \E c \in Cycles, t \in Candidates : DocumentSucceeds(c, t, PushOk, TRUE)
    \/ CallbackReturn
    \/ Shutdown
    \/ TimePasses
    \/ DeadMansCheck

SpecDeadMan == SwitchInit /\ [][SwitchNext]_vars

(***************************************************************************)
(* Trigger: HumanLikeTrigger, scheduler/scheduler.py                       *)
(*                                                                         *)
(* Instants are seconds since 2026-10-31T00:00:00Z, local wall times are   *)
(* seconds since 2026-10-31 00:00:00 of the local calendar. An aware local *)
(* datetime is a record [wall, fold]: the naive fields and the fold        *)
(* attribute. Two datetimes of the same tzinfo are compared and subtracted *)
(* by their naive fields (datetime semantics of Python).                   *)
(***************************************************************************)

\* Bound: max_commits of the modelled settings.
MaxCommits == 2

\* Bound: the random draws of one generation are MaxDraws free draws, the
\* last of them drawn again ever after.
MaxDraws == 2

\* The zones of the modelled settings: ZoneInfo(timezone), scheduler.py:111.
Zones == {"UTC", "America/Los_Angeles"}

\* min_gap_minutes of the modelled settings
GapChoices == {0, 30}

\* The instant 2026-11-01T09:00:00Z, at which America/Los_Angeles goes from
\* UTC-7 to UTC-8: the wall times of [01:00, 02:00) of that Sunday occur twice.
FallBack == 86400 + 9 * 3600
AmbiguousFrom == 86400 + 1 * 3600
AmbiguousTo == 86400 + 2 * 3600

\* tzinfo.utcoffset at an instant, in seconds
OffsetAt(instant) ==
    IF timezone = "UTC" THEN 0
    ELSE IF instant < FallBack THEN 0 - 7 * 3600 ELSE 0 - 8 * 3600

\* now.astimezone(self.timezone): fold is 1 in the second occurrence of an
\* ambiguous wall time.
ToLocal(instant) ==
    LET wall == instant + OffsetAt(instant)
    IN [wall |-> wall,
        fold |-> IF timezone # "UTC" /\ instant >= FallBack /\ wall < AmbiguousTo THEN 1 ELSE 0]

\* utcoffset() of a local datetime: an ambiguous wall time has the offset
\* before the transition with fold 0 and the offset after it with fold 1.
OffsetOf(dt) ==
    IF timezone = "UTC" THEN 0
    ELSE IF dt.wall < AmbiguousFrom THEN 0 - 7 * 3600
    ELSE IF dt.wall >= AmbiguousTo THEN 0 - 8 * 3600
    ELSE IF dt.fold = 0 THEN 0 - 7 * 3600 ELSE 0 - 8 * 3600

\* scheduled_time.astimezone(ZoneInfo("UTC")), as an instant
ToUTC(dt) == dt.wall - OffsetOf(dt)

\* datetime.date(), as the number of the local day
Date(dt) == dt.wall \div 86400

\* date.weekday(): 2026-10-31 is a Saturday (5)
Weekday(day) == (5 + day) % 7

\* day.replace(hour=, minute=, second=, microsecond=0): fold is kept
Replace(dt, hour, minute, second) ==
    [wall |-> Date(dt) * 86400 + hour * 3600 + minute * 60 + second, fold |-> dt.fold]

\* HOUR_WEIGHTS (scheduler.py:24-49), in thousandths, by hour + 1
HOUR_WEIGHTS ==
    <<20, 10, 5, 0, 0, 0, 10, 30, 80, 120, 150, 140,
      80, 100, 140, 150, 140, 100, 60, 50, 100, 120, 100, 50>>

\* prefer_hours and avoid_hours of ScheduleSettings (config.py:66-67)
prefer_hours == {9, 10, 11, 14, 15, 16, 20, 21, 22}
avoid_hours == {3, 4, 5, 6, 7}

\* _build_hour_weights, in two-thousandths
build_hour_weights ==
    [h \in 0 .. 23 |->
        IF h \in avoid_hours THEN 0
        ELSE IF h \in prefer_hours THEN 3 * HOUR_WEIGHTS[h + 1]
        ELSE 2 * HOUR_WEIGHTS[h + 1]]

\* The modelled values of (hour, minute, second) of a draw.
SampleTimes == {<<1, 0, 0>>, <<1, 29, 59>>, <<1, 30, 0>>, <<3, 0, 0>>, <<9, 0, 0>>}

\* One draw of the loop of _generate_times: random.choices yields only
\* hours of positive weight.
Draws ==
    {[hour |-> t[1], minute |-> t[2], second |-> t[3]] :
        t \in {x \in SampleTimes : build_hour_weights[x[1]] > 0}}

DrawSeqs == UNION {[1 .. n -> Draws] : n \in 1 .. MaxDraws}

\* The values of `now` at which the scheduler calls the trigger: Saturday
\* 17:00Z, Sunday 00:30Z, 07:30Z, 08:05Z, 09:05Z and 18:00Z, Monday 08:30Z.
Nows ==
    {17 * 3600, 86400 + 1800, 86400 + 7 * 3600 + 1800, 86400 + 8 * 3600 + 300,
     86400 + 9 * 3600 + 300, 86400 + 18 * 3600, 2 * 86400 + 8 * 3600 + 1800}

Abs(x) == IF x < 0 THEN 0 - x ELSE x

\* Mutant: _is_valid_time that looks only at the times before the candidate.
is_valid_time_one_sided(candidate, existing, min_gap) ==
    \A i \in 1 .. Len(existing) :
        ~ (candidate.wall - existing[i].wall >= 0
           /\ candidate.wall - existing[i].wall < min_gap * 60)

\* _is_valid_time, of min_gap = self.min_gap_minutes
is_valid_time(candidate, existing, min_gap) ==
    \A i \in 1 .. Len(existing) :
        ~ (Abs(candidate.wall - existing[i].wall) < min_gap * 60)

\* The loop of _generate_times (scheduler.py:169-180) over the draws.
RECURSIVE generate_loop(_, _, _, _, _, _)
generate_loop(day, count, draws, times, attempts, min_gap) ==
    IF Len(times) < count /\ attempts < count * 10
    THEN LET d == draws[Min(attempts + 1, Len(draws))]
             candidate == Replace(day, d.hour, d.minute, d.second)
         IN generate_loop(day, count, draws,
                          IF is_valid_time(candidate, times, min_gap)
                          THEN Append(times, candidate) ELSE times,
                          attempts + 1, min_gap)
    ELSE times

\* _generate_times: the loop, then times.sort()
generate_times(day, count, draws, min_gap) ==
    SortSeq(generate_loop(day, count, draws, <<>>, 0, min_gap), LAMBDA a, b : a.wall < b.wall)

\* commit_count of _generate_daily_schedule, of the value randint gave;
\* weekend_reduction is 0.7 (config.py:68) and int() truncates.
commit_count(day, drawn_count) ==
    IF Weekday(Date(day)) >= 5
    THEN LET reduced == (drawn_count * 7) \div 10
         IN IF reduced > 3 THEN reduced ELSE 3
    ELSE drawn_count

\* _generate_daily_schedule: the new value of _daily_times
generate_daily_schedule(day, drawn_count, draws, min_gap) ==
    generate_times(day, commit_count(day, drawn_count), draws, min_gap)

\* The local days of the model.
Days == 0 .. 3

\* The values _generate_daily_schedule can give to _daily_times, for every
\* day (by its date and fold), every value of randint and every sequence of
\* draws, by min_gap_minutes.
ScheduleTable ==
    [date \in Days, fold \in {0, 1}, drawn_count \in 1 .. MaxCommits, min_gap \in GapChoices |->
        {generate_daily_schedule([wall |-> date * 86400, fold |-> fold],
                                 drawn_count, draws, min_gap) : draws \in DrawSeqs}]

\* The values _generate_daily_schedule can give to _daily_times for a day
\* under the settings of the trigger.
Schedules(day) ==
    UNION {ScheduleTable[Date(day), day.fold, drawn_count, min_gap_minutes] :
              drawn_count \in min_commits .. max_commits}

\* The return of get_next_fire_time with its assignments.
Returns(now_utc, schedule, day, result) ==
    /\ daily_times' = schedule
    /\ current_day' = {day}
    /\ tnow' = now_utc
    /\ fired' = {[now |-> now_utc, result |-> result]}

\* now_local + timedelta(days=1): the sum of a datetime has fold 0
Tomorrow(now_local) == [wall |-> now_local.wall + 86400, fold |-> 0]

\* The cached times later than now_local, by the comparison of two datetimes
\* of the same zone (scheduler.py:123-124).
Later(schedule, now_local) ==
    {i \in 1 .. Len(schedule) : schedule[i].wall > now_local.wall}

\* HumanLikeTrigger.get_next_fire_time of now = now_utc; the scheduler's clock
\* does not go back. The schedule of today is the cached one or, when the
\* cache is empty or of another day, a generated one; its first time later
\* than now is returned, and when it has none a schedule generated for
\* tomorrow_start replaces it and its first time is returned.
get_next_fire_time(now_utc) ==
    /\ now_utc >= tnow
    /\ LET now_local == ToLocal(now_utc)
           today == Date(now_local)
           tomorrow_start == Replace(Tomorrow(now_local), 0, 0, 0)
           todays == IF current_day # {today} \/ daily_times = <<>>
                     THEN Schedules(now_local)
                     ELSE {daily_times}
       IN \/ \E schedule \in todays :
                /\ Later(schedule, now_local) # {}
                /\ LET first == CHOOSE i \in Later(schedule, now_local) :
                                    \A j \in Later(schedule, now_local) : i <= j
                   IN Returns(now_utc, schedule, today, {ToUTC(schedule[first])})
          \/ /\ \E schedule \in todays : Later(schedule, now_local) = {}
             /\ \E schedule \in Schedules(tomorrow_start) :
                   Returns(now_utc, schedule, Date(Tomorrow(now_local)),
                           IF schedule # <<>> THEN {ToUTC(schedule[1])} ELSE {})
    /\ UNCHANGED <<timezone, min_commits, max_commits, min_gap_minutes, memVars, olVars,
                   dmVars, cfgVars, alVars, pushVars, swVars, auxVars, devlog, loop>>

\* A trigger of a small schedule in each zone, before its first call.
TriggerInit ==
    /\ MemoryEmpty
    /\ OllamaIdle
    /\ DaemonIdle
    /\ BareSettings
    /\ NoOutage
    /\ AuxIdle
    /\ SwitchIdle
    /\ timezone \in Zones
    /\ max_commits \in 1 .. MaxCommits
    /\ min_commits \in 1 .. max_commits
    /\ min_gap_minutes \in GapChoices
    /\ daily_times = <<>>
    /\ current_day = {}
    /\ tnow = 0
    /\ fired = {}

TriggerNext == \E now_utc \in Nows : get_next_fire_time(now_utc)

SpecTrigger == TriggerInit /\ [][TriggerNext]_vars

\* Bound: the value random.randint gives for the commits of a day.
MaxDrawnCount == 18

\* _generate_daily_schedule up to its commit_count, for the day and the value
\* of randint of the call.
CountCommits ==
    /\ \E q \in counted :
          /\ q.result = {}
          /\ counted' = {[q EXCEPT !.result =
                            {commit_count([wall |-> q.day * 86400, fold |-> 0], q.drawn_count)}]}
    /\ UNCHANGED <<memVars, olVars, dmVars, cfgVars, alVars, pushVars, swVars, trigVars,
                   preview, scored, llm, search, loaded, dash, boot, devlog, loop>>

\* A call of _generate_daily_schedule for each day of a week and each value
\* of randint.
CountInit ==
    /\ MemoryEmpty /\ OllamaIdle /\ DaemonIdle /\ BareSettings /\ NoOutage
    /\ SwitchIdle /\ TriggerIdle
    /\ DevlogEmpty /\ PreviewIdle /\ ScorerIdle /\ LlmIdle /\ SearchIdle
    /\ loaded = {}
    /\ dash = NoSubscribers
    /\ boot = <<>>
    /\ \E day \in 0 .. 6, drawn_count \in 1 .. MaxDrawnCount :
          counted = {[day |-> day, drawn_count |-> drawn_count, result |-> {}]}

CountNext == CountCommits

SpecCount == CountInit /\ [][CountNext]_vars

\* Bound: the days of a preview.
MaxPreviewDays == 2

\* The modelled values of (hour, minute, second) of a draw of a preview.
PreviewSampleTimes == {<<0, 10, 0>>, <<12, 0, 0>>, <<23, 50, 0>>}

PreviewDraws ==
    {[hour |-> t[1], minute |-> t[2], second |-> t[3]] :
        t \in {x \in PreviewSampleTimes : build_hour_weights[x[1]] > 0}}

PreviewDrawSeqs == UNION {[1 .. n -> PreviewDraws] : n \in 1 .. MaxDraws}

\* The values of datetime.now() at a preview: Saturday 17:00Z, Monday 15:00Z.
PreviewNows == {17 * 3600, 2 * 86400 + 15 * 3600}

\* The values _generate_daily_schedule can give to _daily_times in a preview,
\* by the date of the day (`now + timedelta` has fold 0), the value of
\* randint and min_gap_minutes.
PreviewTable ==
    [date \in 0 .. 2 + MaxPreviewDays, drawn_count \in 1 .. MaxCommits, min_gap \in GapChoices |->
        {generate_daily_schedule([wall |-> date * 86400, fold |-> 0],
                                 drawn_count, draws, min_gap) : draws \in PreviewDrawSeqs}]

\* The entries the preview appends for one day.
PreviewEntries(schedule) ==
    [i \in 1 .. Len(schedule) |->
        [time |-> schedule[i],
         hour |-> (schedule[i].wall % 86400) \div 3600,
         is_weekend |-> Weekday(Date(schedule[i])) >= 5]]

\* The lists get_schedule_preview can return for the days from day_offset
\* on: the schedule generated for the day, then those of the later days.
RECURSIVE PreviewFrom(_, _, _)
PreviewFrom(now_local, day_offset, days) ==
    IF day_offset >= days THEN {<<>>}
    ELSE LET date == Date([wall |-> now_local.wall + day_offset * 86400, fold |-> 0])
             todays == UNION {PreviewTable[date, drawn_count, min_gap_minutes] :
                                 drawn_count \in min_commits .. max_commits}
         IN {PreviewEntries(schedule) \o rest :
                schedule \in todays, rest \in PreviewFrom(now_local, day_offset + 1, days)}

\* CodeWormScheduler.get_schedule_preview(days) at now = now_utc: a trigger of
\* its own generates the schedules, the trigger of the job is not touched.
get_schedule_preview(days, now_utc) ==
    /\ \E entries \in PreviewFrom(ToLocal(now_utc), 0, days) :
          preview' = {[days |-> days, now |-> now_utc, entries |-> entries]}
    /\ UNCHANGED <<memVars, olVars, dmVars, cfgVars, alVars, pushVars, swVars, trigVars,
                   scored, llm, search, counted, loaded, dash, boot, devlog, loop>>

\* A scheduler of a small schedule in each zone.
PreviewInit ==
    /\ MemoryEmpty
    /\ OllamaIdle
    /\ DaemonIdle
    /\ BareSettings
    /\ NoOutage
    /\ AuxIdle
    /\ SwitchIdle
    /\ timezone \in Zones
    /\ max_commits \in 1 .. MaxCommits
    /\ min_commits \in 1 .. max_commits
    /\ min_gap_minutes \in GapChoices
    /\ daily_times = <<>>
    /\ current_day = {}
    /\ tnow = 0
    /\ fired = {}

PreviewNext ==
    \E days \in 1 .. MaxPreviewDays, now_utc \in PreviewNows : get_schedule_preview(days, now_utc)

SpecPreview == PreviewInit /\ [][PreviewNext]_vars

(***************************************************************************)
(* The interest scorer: InterestScorer, GitStats (analysis/scoring.py)     *)
(***************************************************************************)

\* The scores are rationals; the model holds them as integers, in units of
\* 1/Unit of a point, the least unit in which every weighted sub-score of an
\* integer input is whole (0.35 * 100 / 20, 0.15 * 100 / 100, 0.15 * 100 / 5,
\* 0.10 * 100 / 7, 0.15 * 100 / 5, 0.10 * 100 / 30).
Unit == 420

COMPLEXITY_CAP == 20
LENGTH_CAP == 100
NESTING_CAP == 5
PARAM_CAP == 7
CHURN_CAP == 5
NOVELTY_DAYS == 30

\* WEIGHTS, in hundredths
WEIGHTS ==
    [complexity |-> 35, length |-> 15, nesting |-> 15, parameters |-> 10,
     churn |-> 15, novelty |-> 10]

\* PATTERN_BONUSES
PATTERN_BONUSES ==
    [decorator |-> 5, async |-> 5, context_manager |-> 10, generator |-> 8,
     class_method |-> 3, property |-> 3, abstract |-> 8, dataclass |-> 7]

\* GitStats.last_modified: {} for None, or {the seconds from last_modified to
\* datetime.now()}; the commit of a clock that runs ahead is in the future.
Ages == {{}} \cup {{age} : age \in {-1, 0, 5 * 86400, 30 * 86400, 45 * 86400}}

\* GitStats.days_since_modified: timedelta.days rounds down.
days_since_modified(age) ==
    IF age = {} THEN 999 ELSE (CHOOSE seconds \in age : TRUE) \div 86400

\* The modelled decorators, with the words of the bonus tests that the
\* lowered text of each contains.
Mentions ==
    [property |-> {"property"}, staticmethod |-> {"staticmethod"},
     abstractmethod |-> {"abstractmethod"}, Dataclass |-> {"dataclass"},
     cache |-> {}]

DecoratorLists ==
    {<<>>, <<"property">>, <<"abstractmethod", "staticmethod">>, <<"Dataclass">>,
     <<"cache", "cache">>}

\* The words of the bonus tests found in " ".join(decorators).lower()
decorator_text(decorators) == UNION {Mentions[decorators[i]] : i \in 1 .. Len(decorators)}

\* The source text, as the set of the tested words it contains.
SourceTexts == {{}, {"yield"}, {"yield", "__enter__", "__exit__"}}

\* _calculate_pattern_bonus, in points
calculate_pattern_bonus(decorators, is_async, source) ==
    (IF is_async THEN PATTERN_BONUSES.async ELSE 0)
    + (IF decorators # <<>>
       THEN Len(decorators) * PATTERN_BONUSES.decorator
            + (IF "property" \in decorator_text(decorators)
               THEN PATTERN_BONUSES.property ELSE 0)
            + (IF "classmethod" \in decorator_text(decorators)
                  \/ "staticmethod" \in decorator_text(decorators)
               THEN PATTERN_BONUSES.class_method ELSE 0)
            + (IF "abstractmethod" \in decorator_text(decorators)
               THEN PATTERN_BONUSES.abstract ELSE 0)
            + (IF "dataclass" \in decorator_text(decorators)
               THEN PATTERN_BONUSES.dataclass ELSE 0)
       ELSE 0)
    + (IF "yield" \in source THEN PATTERN_BONUSES.generator ELSE 0)
    + (IF "__enter__" \in source \/ "__exit__" \in source
       THEN PATTERN_BONUSES.context_manager ELSE 0)

\* min(value / cap, 1.0) * 100 * weight, in units
Capped(value, cap, weight) == (Min(value, cap) * weight * Unit) \div cap

\* max(0, (NOVELTY_DAYS - days_old) / NOVELTY_DAYS) * 100 * weight, in units
novelty(days_old) ==
    IF days_old >= NOVELTY_DAYS THEN 0
    ELSE ((NOVELTY_DAYS - days_old) * WEIGHTS.novelty * Unit) \div NOVELTY_DAYS

\* InterestScorer.score: the InterestScore, in units
score(metrics, age, decorators, is_async, source) ==
    LET complexity_score == Capped(metrics.cyclomatic_complexity, COMPLEXITY_CAP,
                                   WEIGHTS.complexity)
        length_score == Capped(metrics.nloc, LENGTH_CAP, WEIGHTS.length)
        nesting_score == Capped(metrics.max_nesting_depth, NESTING_CAP, WEIGHTS.nesting)
        param_score == Capped(metrics.parameter_count, PARAM_CAP, WEIGHTS.parameters)
        churn_score == Capped(metrics.commit_count_30d, CHURN_CAP, WEIGHTS.churn)
        novelty_score == novelty(days_since_modified(age))
        pattern_bonus == calculate_pattern_bonus(decorators, is_async, source) * Unit
        weighted_total == complexity_score + length_score + nesting_score + param_score
                          + churn_score + novelty_score + pattern_bonus
    IN [total |-> Min(weighted_total, 100 * Unit),
        complexity_score |-> complexity_score,
        length_score |-> length_score,
        nesting_score |-> nesting_score,
        parameter_score |-> param_score,
        churn_score |-> churn_score,
        novelty_score |-> novelty_score,
        pattern_bonus |-> pattern_bonus]

\* The metrics of a function with its churn: ComplexityMetrics and
\* GitStats.commit_count_30d, none of them negative.
MetricsInputs ==
    [cyclomatic_complexity : {0, 8, 20, 25}, nloc : {0, 30, 150},
     max_nesting_depth : {0, 3, 6}, parameter_count : {0, 2, 9},
     commit_count_30d : {0, 2, 6}]

\* InterestScorer.score returns for the arguments of the call.
Score ==
    /\ \E q \in scored :
          /\ q.result = {}
          /\ scored' = {[q EXCEPT !.result =
                            {score(q.metrics, q.age, q.decorators, q.is_async, q.source)}]}
    /\ UNCHANGED <<memVars, olVars, dmVars, cfgVars, alVars, pushVars, swVars, trigVars,
                   preview, llm, search, counted, loaded, dash, boot, devlog, loop>>

\* A call of InterestScorer.score, for every modelled value of its arguments.
ScorerInit ==
    /\ MemoryEmpty /\ OllamaIdle /\ DaemonIdle /\ BareSettings /\ NoOutage
    /\ SwitchIdle /\ TriggerIdle
    /\ DevlogEmpty /\ PreviewIdle /\ LlmIdle /\ SearchIdle /\ CallsIdle
    /\ \E metrics \in MetricsInputs, age \in Ages, decorators \in DecoratorLists,
          is_async \in BOOLEAN, source \in SourceTexts :
           scored = {[metrics |-> metrics, age |-> age, decorators |-> decorators,
                      is_async |-> is_async, source |-> source, result |-> {}]}

ScorerNext == Score

SpecScorer == ScorerInit /\ [][ScorerNext]_vars

(***************************************************************************)
(* The target search: CodeWormDaemon._find_documentation_target            *)
(* (daemon.py), select_doc_type and TargetRouter (analysis/targets.py)     *)
(***************************************************************************)

\* Bound: the entries of documentation.type_weights.
MaxWeightKeys == 3

\* DocType, the enum of the flavors (imported at targets.py:21).
DocTypeValues ==
    {"function_doc", "security_review", "performance_analysis", "til", "file_doc",
     "class_doc", "module_doc", "code_evolution", "pattern_analysis",
     "weekly_summary", "monthly_summary"}

\* The two flavors the search never dispatches (daemon.py:492).
SummaryTypes == {"weekly_summary", "monthly_summary"}

\* The keys a weight map is written with: flavors, a summary, a string that
\* names no flavor.
WeightKeys == {"function_doc", "class_doc", "weekly_summary", "rubbish"}

WeightValues == {0, 10}

\* documentation.type_weights, a dict in insertion order: its (key, weight)
\* items, no key twice.
TypeWeightMaps ==
    {w \in UNION {[1 .. n -> WeightKeys \X WeightValues] : n \in 0 .. MaxWeightKeys} :
        \A i, j \in DOMAIN w : i # j => w[i][1] # w[j][1]}

\* settings.repos in configuration order.
RepoConfigs ==
    {<<[name |-> a, enabled |-> ea], [name |-> b, enabled |-> eb]>> :
        <<a, b, ea, eb>> \in {x \in {"main", "side"} \X {"main", "side"} \X BOOLEAN \X BOOLEAN :
                                 x[1] # x[2]}}

SearchSnippet(repo, path, function_name, class_name, source) ==
    [repo |-> repo, file_path |-> path, function_name |-> function_name,
     class_name |-> class_name, source |-> source]

\* CodeAnalyzer.find_candidates(repo): the functions of a repository, ranked.
find_candidates(repo) ==
    IF repo = "main"
    THEN <<SearchSnippet("main", "main/foo.py", "compute", NULL, "v1"),
           SearchSnippet("main", "main/foo.py", "helper", NULL, "v2")>>
    ELSE <<SearchSnippet("side", "side/bar.py", "parse", NULL, "v3")>>

\* ClassTargetFinder.find(repo): the classes of a repository, ranked.
find_classes(repo) ==
    IF repo = "main"
    THEN <<SearchSnippet("main", "main/foo.py", NULL, "Foo", "v4")>>
    ELSE <<>>

Tagged(snippets, doc_type) ==
    [i \in DOMAIN snippets |-> [snippet |-> snippets[i], doc_type |-> doc_type]]

\* TargetRouter.find_targets
find_targets(doc_type, repo) ==
    IF doc_type = "function_doc" THEN Tagged(find_candidates(repo), "function_doc")
    ELSE IF doc_type = "class_doc" THEN Tagged(find_classes(repo), "class_doc")
    ELSE IF doc_type \in {"security_review", "performance_analysis", "til"}
         THEN Tagged(find_candidates(repo), doc_type)
    ELSE <<>>

\* The memory a search can meet: each target documented today under its own
\* flavor, and an older version of compute documented five days ago.
SearchToday == 100

SearchRows ==
    {[id |-> 1, source_file |-> "main/foo.py", function_name |-> "compute",
      class_name |-> NULL, code_hash |-> hash_code("v1"), documented_at |-> SearchToday,
      doc_type |-> "function_doc"],
     [id |-> 2, source_file |-> "main/foo.py", function_name |-> "helper",
      class_name |-> NULL, code_hash |-> hash_code("v2"), documented_at |-> SearchToday,
      doc_type |-> "function_doc"],
     [id |-> 3, source_file |-> "side/bar.py", function_name |-> "parse",
      class_name |-> NULL, code_hash |-> hash_code("v3"), documented_at |-> SearchToday,
      doc_type |-> "function_doc"],
     [id |-> 4, source_file |-> "main/foo.py", function_name |-> NULL,
      class_name |-> "Foo", code_hash |-> hash_code("v4"), documented_at |-> SearchToday,
      doc_type |-> "class_doc"],
     [id |-> 5, source_file |-> "main/foo.py", function_name |-> "compute",
      class_name |-> NULL, code_hash |-> hash_code("v0"), documented_at |-> SearchToday - 5,
      doc_type |-> "function_doc"]}

\* select_doc_type: the flavors random.choices can return, "function_doc"
\* when no key names a flavor, none when the weights sum to zero (ValueError).
select_doc_type(weights) ==
    LET valid == {i \in DOMAIN weights : weights[i][1] \in DocTypeValues}
    IN  IF valid = {} THEN {"function_doc"}
        ELSE {weights[i][1] : i \in {j \in valid : weights[j][2] > 0}}

RECURSIVE TypesToTry(_, _)
\* The strings of [selected_type.value, *all_types] that pass the three
\* `continue`s, in order (daemon.py:484-493).
TypesToTry(strs, tried_types) ==
    IF strs = <<>> THEN <<>>
    ELSE LET type_str == Head(strs)
         IN  IF \/ type_str \notin DocTypeValues
                \/ type_str \in tried_types
                \/ type_str \in SummaryTypes
             THEN TypesToTry(Tail(strs), tried_types)
             ELSE <<type_str>> \o TypesToTry(Tail(strs), tried_types \cup {type_str})

RECURSIVE FirstToDocument(_, _)
\* The loop over the targets of one repository (daemon.py:506-518).
FirstToDocument(targets, redoc_days) ==
    IF targets = <<>> THEN {}
    ELSE IF should_document(Head(targets).snippet, Head(targets).doc_type, redoc_days)
         THEN {Head(targets)}
         ELSE FirstToDocument(Tail(targets), redoc_days)

RECURSIVE SearchRepos(_, _, _, _)
\* The loop over enabled_repos for one flavor (daemon.py:496-518).
SearchRepos(doc_type, repos, exhausted, redoc_days) ==
    IF repos = <<>> THEN {}
    ELSE LET repo == Head(repos)
             found == FirstToDocument(find_targets(doc_type, repo.name), redoc_days)
         IN  IF repo.name \in exhausted
             THEN SearchRepos(doc_type, Tail(repos), exhausted, redoc_days)
             ELSE IF found # {} THEN found
             ELSE SearchRepos(doc_type, Tail(repos), exhausted, redoc_days)

RECURSIVE SearchTypes(_, _, _, _, _)
\* The loop over the flavors; `tried` is the order in which flavors were
\* searched.
SearchTypes(types, repos, exhausted, redoc_days, tried) ==
    IF types = <<>> THEN [raised |-> FALSE, target |-> {}, tried |-> tried]
    ELSE LET found == SearchRepos(Head(types), repos, exhausted, redoc_days)
         IN  IF found # {}
             THEN [raised |-> FALSE, target |-> found, tried |-> Append(tried, Head(types))]
             ELSE SearchTypes(Tail(types), repos, exhausted, redoc_days,
                              Append(tried, Head(types)))

\* Mutant: the search over every configured repository, enabled or not.
find_documentation_target_any_repo(type_weights, selected_type, repos, exhausted, redoc_days) ==
    LET all_types == [i \in DOMAIN type_weights |-> type_weights[i][1]]
    IN  SearchTypes(TypesToTry(<<selected_type>> \o all_types, {}),
                    repos, exhausted, redoc_days, <<>>)

\* CodeWormDaemon._find_documentation_target, for the flavor select_doc_type
\* returned.
find_documentation_target(type_weights, selected_type, repos, exhausted, redoc_days) ==
    LET enabled == SelectSeq(repos, LAMBDA r : r.enabled)
        all_types == [i \in DOMAIN type_weights |-> type_weights[i][1]]
    IN  SearchTypes(TypesToTry(<<selected_type>> \o all_types, {}),
                    enabled, exhausted, redoc_days, <<>>)

\* One call of _find_documentation_target.
Search ==
    /\ \E q \in search :
          /\ q.result = {}
          /\ search' =
               {[q EXCEPT !.result =
                    IF q.selected_type = {}
                    THEN {[raised |-> TRUE, target |-> {}, tried |-> <<>>]}
                    ELSE {find_documentation_target(
                              q.type_weights, CHOOSE f \in q.selected_type : TRUE,
                              q.repos, repos_exhausted, DefaultRedocumentAfterDays)}]}
    /\ UNCHANGED <<memVars, olVars, dmVars, cfgVars, alVars, pushVars, swVars, trigVars,
                   preview, scored, llm, counted, loaded, dash, boot, devlog, loop>>

\* A search about to start: a weight map, the flavor drawn from it, the
\* repositories and the memory, for every modelled value of them.
SearchInit ==
    /\ OllamaIdle /\ DaemonIdle /\ BareSettings /\ NoOutage
    /\ SwitchIdle /\ TriggerIdle
    /\ DevlogEmpty /\ PreviewIdle /\ ScorerIdle /\ LlmIdle /\ CallsIdle
    /\ rows \in SUBSET SearchRows
    /\ now = SearchToday
    /\ recorded = {}
    /\ lastCheck = {}
    /\ \E type_weights \in TypeWeightMaps, repos \in RepoConfigs :
          \E selected_type \in IF select_doc_type(type_weights) = {}
                               THEN {{}}
                               ELSE {{f} : f \in select_doc_type(type_weights)} :
              search = {[type_weights |-> type_weights, selected_type |-> selected_type,
                         repos |-> repos, result |-> {}]}

SearchNext == Search

SpecSearch == SearchInit /\ [][SearchNext]_vars

(***************************************************************************)
(* The LLM client: OllamaClient.generate_with_retry, _recover_from_oom,    *)
(* generate (llm/client.py)                                                *)
(***************************************************************************)

\* Bound: the max_retries a caller passes (default 3).
MaxRetries == 3

\* retry_delay: float = 2.0
DefaultRetryDelay == 2

\* OllamaSettings.num_ctx: int = 16384
DefaultNumCtx == 16384

\* The cap of the context window the recovery reloads with.
ReducedCtxCap == 8192

\* asyncio.sleep(5) between unload and reload.
OomRecoverySleep == 5

\* The num_ctx a deployment configures: below the cap, and the default.
NumCtxSettings == {4096, DefaultNumCtx}

\* The exceptions of the client (client.py:21-38), all of them OllamaError.
LlmErrors == {"OllamaError", "OllamaConnectionError", "OllamaModelError", "OllamaTimeoutError"}

\* The request generate posts, with the way it ended (client.py:152-199).
GenerateRequest(outcome) ==
    [kind |-> "generate", num_ctx |-> llm.num_ctx, seconds |-> 0, outcome |-> outcome]

\* The two requests and the sleep of a completed _recover_from_oom.
RecoveryLog ==
    <<[kind |-> "unload", num_ctx |-> 0, seconds |-> 0, outcome |-> "sent"],
      [kind |-> "sleep", num_ctx |-> 0, seconds |-> OomRecoverySleep, outcome |-> "slept"],
      [kind |-> "reload", num_ctx |-> IF llm.num_ctx < ReducedCtxCap THEN llm.num_ctx
                                      ELSE ReducedCtxCap,
       seconds |-> 0, outcome |-> "sent"]>>

\* Mutant: no linear growth of the wait.
Backoff_flat(attempt) ==
    IF attempt < llm.max_retries - 1
    THEN <<[kind |-> "sleep", num_ctx |-> 0, seconds |-> llm.retry_delay,
            outcome |-> "slept"]>>
    ELSE <<>>

\* asyncio.sleep(retry_delay * (attempt + 1)) unless this was the last attempt.
Backoff(attempt) ==
    IF attempt < llm.max_retries - 1
    THEN <<[kind |-> "sleep", num_ctx |-> 0, seconds |-> llm.retry_delay * (attempt + 1),
            outcome |-> "slept"]>>
    ELSE <<>>

LlmUnchanged ==
    UNCHANGED <<memVars, olVars, dmVars, cfgVars, alVars, pushVars, swVars, trigVars,
                preview, scored, search, counted, loaded, dash, boot, devlog, loop>>

InLoop == llm.pc = "loop" /\ llm.attempt < llm.max_retries

\* generate returns: generate_with_retry returns its result.
GenerateReturns ==
    /\ InLoop
    /\ llm' = [llm EXCEPT !.pc = "returned",
                          !.log = Append(@, GenerateRequest("ok"))]
    /\ LlmUnchanged

\* generate raises OllamaModelError and the recovery completes.
GenerateOom ==
    /\ InLoop
    /\ llm' = [llm EXCEPT !.log = Append(@, GenerateRequest("OllamaModelError")) \o RecoveryLog,
                          !.last_error = {"OllamaModelError"},
                          !.attempt = @ + 1]
    /\ LlmUnchanged

\* generate raises OllamaModelError and a request of the recovery raises:
\* the OllamaModelError of _recover_from_oom leaves generate_with_retry.
GenerateOomRecoveryFails(sent) ==
    /\ InLoop
    /\ llm' = [llm EXCEPT !.pc = "raised",
                          !.log = Append(@, GenerateRequest("OllamaModelError"))
                                  \o SubSeq(RecoveryLog, 1, sent)
                                  \o <<[RecoveryLog[sent + 1] EXCEPT !.outcome = "raised"]>>,
                          !.error = {"OllamaModelError"}]
    /\ LlmUnchanged

\* generate raises OllamaTimeoutError or OllamaConnectionError.
GenerateTransient(e) ==
    /\ InLoop
    /\ llm' = [llm EXCEPT !.log = Append(@, GenerateRequest(e)) \o Backoff(llm.attempt),
                          !.last_error = {e},
                          !.attempt = @ + 1]
    /\ LlmUnchanged

\* generate raises a plain OllamaError (a status other than 200 without
\* "out of memory" or "cuda"): no `except` of the loop catches it.
GenerateFails ==
    /\ InLoop
    /\ llm' = [llm EXCEPT !.pc = "raised",
                          !.log = Append(@, GenerateRequest("OllamaError")),
                          !.error = {"OllamaError"}]
    /\ LlmUnchanged

\* Mutant: the loop falls through and the function returns None.
RetriesExhausted_returns ==
    /\ llm.pc = "loop"
    /\ llm.attempt >= llm.max_retries
    /\ llm' = [llm EXCEPT !.pc = "returned"]
    /\ LlmUnchanged

\* The loop is over: raise last_error or OllamaError(...).
RetriesExhausted ==
    /\ llm.pc = "loop"
    /\ llm.attempt >= llm.max_retries
    /\ llm' = [llm EXCEPT !.pc = "raised",
                          !.error = IF llm.last_error # {} THEN llm.last_error
                                    ELSE {"OllamaError"}]
    /\ LlmUnchanged

\* A call of generate_with_retry about to enter its loop.
LlmInit ==
    /\ MemoryEmpty /\ OllamaIdle /\ DaemonIdle /\ BareSettings /\ NoOutage
    /\ SwitchIdle /\ TriggerIdle
    /\ DevlogEmpty /\ PreviewIdle /\ ScorerIdle /\ SearchIdle /\ CallsIdle
    /\ \E max_retries \in 0 .. MaxRetries, num_ctx \in NumCtxSettings :
          llm = [pc |-> "loop", max_retries |-> max_retries,
                 retry_delay |-> DefaultRetryDelay, num_ctx |-> num_ctx,
                 attempt |-> 0, log |-> <<>>, last_error |-> {}, error |-> {}]

LlmNext ==
    \/ GenerateReturns
    \/ GenerateOom
    \/ \E sent \in {0, 2} : GenerateOomRecoveryFails(sent)
    \/ \E e \in {"OllamaTimeoutError", "OllamaConnectionError"} : GenerateTransient(e)
    \/ GenerateFails
    \/ RetriesExhausted

SpecLlm == LlmInit /\ [][LlmNext]_vars

(***************************************************************************)
(* Generation inside a cycle: _document_target (daemon.py) calling         *)
(* generate_with_retry (llm/client.py)                                     *)
(***************************************************************************)

\* max_retries: int = 3
DefaultMaxRetries == 3

\* _document_target reaches the generation of cycle c: generate_with_retry
\* is entered with its defaults (daemon.py:570-572).
BeginGeneration(c) ==
    /\ LoopOpen
    /\ cyc[c].pc = "generate"
    /\ IF llm.pc = "idle" THEN TRUE ELSE llm.pc # "loop" /\ llm.cycle # c
    /\ llm' = [pc |-> "loop", cycle |-> c, max_retries |-> DefaultMaxRetries,
               retry_delay |-> DefaultRetryDelay, num_ctx |-> DefaultNumCtx,
               attempt |-> 0, log |-> <<>>, last_error |-> {}, error |-> {}]
    /\ LlmUnchanged

\* generate_with_retry raised: `except OllamaError` of _document_target returns
\* False (daemon.py:651-657) and the cycle records a failure (daemon.py:456).
GenerationFails(c) ==
    /\ llm.pc = "raised"
    /\ llm.cycle = c
    /\ DocumentFails(c)

\* generate_with_retry returned: the document is written, committed and
\* recorded (daemon.py:586-649).
GenerationSucceeds(c, t) ==
    /\ llm.pc = "returned"
    /\ llm.cycle = c
    /\ DocumentSucceeds(c, t, PushOk, TRUE)

GenerationInit ==
    /\ Started
    /\ dry_run = FALSE
    /\ BareSettings

\* Cycles over the repository of one function: the readiness probe succeeds
\* or fails, and every request of the generation ends in each of its ways.
GenerationNext ==
    \/ FireUpTo(MaxCycles)
    \/ \E c \in Cycles : CycleStart(c)
    \/ \E c \in Cycles : BackoffOver(c)
    \/ \E c \in Cycles, healthy \in BOOLEAN : EnsureReady(c, healthy)
    \/ \E c \in Cycles : CycleProbeOk(c)
    \/ \E c \in Cycles, t \in Candidates : FindTarget(c, t)
    \/ \E c \in Cycles : BeginGeneration(c)
    \/ LlmNext
    \/ \E c \in Cycles : GenerationFails(c)
    \/ \E c \in Cycles, t \in Candidates : GenerationSucceeds(c, t)
    \/ CallbackReturn

SpecGeneration == GenerationInit /\ [][GenerationNext]_vars

(***************************************************************************)
(* Configuration: load_settings, merge_configs, CodeWormSettings           *)
(* (core/config.py)                                                        *)
(***************************************************************************)

\* The settings of the model, by their path: one of the top level, two of
\* the nested OllamaSettings.
SettingPaths == {<<"debug">>, <<"ollama", "model">>, <<"ollama", "num_ctx">>}

\* A value of a dict: a leaf, or a dict of leaves.
Leaf(value) == [dict |-> FALSE, value |-> value, items |-> <<>>]
Nested(items) == [dict |-> TRUE, value |-> "", items |-> items]

\* The dict a source gives when it defines the settings `paths`, each with
\* the name of the source as its value.
SourceDict(paths, source) ==
    LET top == {p[1] : p \in paths}
    IN  [k \in top |->
            IF <<k>> \in paths THEN Leaf(source)
            ELSE Nested([j \in {p[2] : p \in {x \in paths : x[1] = k}} |-> Leaf(source)])]

\* merge_configs: a deep merge in which `override` wins. The dicts of the
\* model nest one level deep, the recursion is written out.
merge_configs(base, override) ==
    [key \in DOMAIN base \cup DOMAIN override |->
        IF key \notin DOMAIN override THEN base[key]
        ELSE IF key \in DOMAIN base /\ base[key].dict /\ override[key].dict
             THEN Nested([j \in DOMAIN base[key].items \cup DOMAIN override[key].items |->
                             IF j \in DOMAIN override[key].items
                             THEN override[key].items[j]
                             ELSE base[key].items[j]])
             ELSE override[key]]

\* CodeWormSettings(**merged), a pydantic BaseSettings with env_prefix
\* CODEWORM_ and env_nested_delimiter "__": the keyword arguments come before
\* the environment, the environment before the field defaults, merged deeply.
CodeWormSettings(kwargs, env) ==
    merge_configs(SourceDict(SettingPaths, "default"), merge_configs(env, kwargs))

\* load_settings(config_dir, **overrides)
load_settings(yaml_config, overrides, env) ==
    LET merged == merge_configs(yaml_config, overrides)
    IN  CodeWormSettings(merged, env)

\* The value of the setting at `path` in a dict, as a set of at most one.
ValueAt(d, path) ==
    IF path[1] \notin DOMAIN d THEN {}
    ELSE IF Len(path) = 1 THEN {d[path[1]].value}
    ELSE IF d[path[1]].dict /\ path[2] \in DOMAIN d[path[1]].items
         THEN {d[path[1]].items[path[2]].value}
         ELSE {}

\* One call of load_settings.
LoadSettings ==
    /\ \E q \in loaded :
          /\ q.result = {}
          /\ loaded' = {[q EXCEPT !.result =
                           {load_settings(SourceDict(q.yaml, "yaml"),
                                          SourceDict(q.overrides, "overrides"),
                                          SourceDict(q.env, "env"))}]}
    /\ UNCHANGED <<memVars, olVars, dmVars, cfgVars, alVars, pushVars, swVars, trigVars,
                   preview, scored, llm, search, counted, dash, boot, devlog, loop>>

\* A call of load_settings, for every choice of the settings each source
\* defines.
ConfigInit ==
    /\ MemoryEmpty /\ OllamaIdle /\ DaemonIdle /\ BareSettings /\ NoOutage
    /\ SwitchIdle /\ TriggerIdle
    /\ DevlogEmpty /\ PreviewIdle /\ ScorerIdle /\ LlmIdle /\ SearchIdle
    /\ counted = {}
    /\ dash = NoSubscribers
    /\ boot = <<>>
    /\ \E yaml \in SUBSET SettingPaths, overrides \in SUBSET SettingPaths,
          env \in SUBSET SettingPaths :
           loaded = {[yaml |-> yaml, overrides |-> overrides, env |-> env, result |-> {}]}

ConfigNext == LoadSettings

SpecConfig == ConfigInit /\ [][ConfigNext]_vars

(***************************************************************************)
(* Claims about the supervisor                                             *)
(***************************************************************************)

\* C13: once shutdown is requested (running = false), the long waits of the
\* supervisor, the Ollama wait and the pre-cycle failure backoff, are
\* abandoned: a cycle in one of them takes no further step but its return,
\* no health probe and no later step of the cycle starts.
C13_WaitsAbandoned ==
    [][~running =>
          \A c \in Cycles :
              cyc[c].pc \in {"backoff", "ollama_wait"}
                  => cyc'[c].pc \in {cyc[c].pc, "done"}]_vars

\* C14: when INT or TERM arrives while a cycle is in flight, the daemon does
\* not close the LLM client and the event loop before that cycle has finished
\* or its timeout has elapsed.
C14_CycleDrainedBeforeExit ==
    loop = "closed" =>
        \A c \in Cycles : cyc[c].pc \in {"done", "raised"} \/ cyc[c].timedOut

\* C35 (as stated): the scheduler is started only after a health probe has
\* succeeded and prewarm was called, the dead man's switch is armed only
\* after the scheduler was started, and when the shutdown is requested
\* during the initial Ollama wait, that is before _wait_for_ollama has
\* returned, the scheduler is never started and no cycle runs.
C35_StartupOrder ==
    /\ BootDone("scheduler_start") =>
           /\ BootDone("health_ok") /\ BootIndex("health_ok") < BootIndex("scheduler_start")
           /\ BootDone("prewarm") /\ BootIndex("prewarm") < BootIndex("scheduler_start")
    /\ schedulerUp \/ cyc # <<>> => BootDone("scheduler_start")
    /\ BootDone("switch_armed") => BootIndex("scheduler_start") < BootIndex("switch_armed")
    /\ BootDone("shutdown") /\ (BootDone("health_ok") => BootIndex("shutdown") < BootIndex("health_ok")) =>
           /\ ~BootDone("scheduler_start")
           /\ cyc = <<>>

\* C36 (as stated): when a broadcast has returned, no subscriber whose send
\* failed is in the active set, and every subscriber of the call that is
\* still connected has received the message, also when clients connect or
\* disconnect while the broadcast is in progress.
C36_BroadcastReachesAll ==
    dash.pc = "idle" /\ dash.done =>
        /\ Elements(dash.disconnected) \cap Elements(dash.active) = {}
        /\ \A ws \in dash.start \cap Elements(dash.active) : ws \in dash.got

\* The cycle went past _ensure_ollama_ready (daemon.py:418-421).
PastReadiness(c) ==
    \/ cyc[c].pc \in {"find", "generate"}
    \/ cyc[c].target # {}
    \/ cyc[c].skipped # {}
    \/ cyc[c].exc

\* The calls of record_success, record_failure and record_skip made for a
\* cycle, by its coroutine and by its callback.
Outcomes(c) ==
    cyc[c].fails + (IF cyc[c].succ THEN 1 ELSE 0) + (IF cyc[c].skipped # {} THEN 1 ELSE 0)

\* C37 (as stated): every cycle that got past the readiness check and is
\* over, its coroutine ended and its callback back, has recorded exactly one
\* outcome, a success, a failure or a skip, also when it raised, when its
\* callback timed out after 1800 seconds, and when emitting the stats failed.
C37_ExactlyOneOutcome ==
    \A c \in Cycles :
        /\ PastReadiness(c)
        /\ cyc[c].pc \in {"done", "raised"}
        /\ cbCycle # c
        => Outcomes(c) = 1

\* C38: a step that records a skip leaves consecutive_failures, last_success
\* and last_failure as they are, so the failure backoff read before the next
\* cycle is the one read before the skip; and a positive failure backoff
\* goes back to 0 only in a step that records a success.
C38_SkipKeepsStreak ==
    [][/\ skipped_cycles' # skipped_cycles =>
             /\ UNCHANGED <<consecutive_failures, last_success, last_failure>>
             /\ get_backoff_seconds(consecutive_failures')
                    = get_backoff_seconds(consecutive_failures)
       /\ (get_backoff_seconds(consecutive_failures) > 0
              /\ get_backoff_seconds(consecutive_failures') = 0)
             => successful_cycles' = successful_cycles + 1]_vars

\* C38 witness: two failures, then a skip, and the cycle after the skip
\* sleeps the 60 seconds of two consecutive failures.
C38_Witness ==
    /\ Len(cyc) = 4
    /\ cyc[1].fails = 1
    /\ cyc[2].fails = 1
    /\ cyc[3].skipped # {}
    /\ cyc[4].pc = "backoff"
    /\ cyc[4].sleep = 60
    /\ consecutive_failures = 2
    /\ last_failure = {2}
    /\ last_failure_reason = "no_candidates"

\* The number of failed pushes at the end of a sequence of push outcomes.
RECURSIVE FailedSinceLastOk(_)
FailedSinceLastOk(outcomes) ==
    IF outcomes = <<>> \/ outcomes[Len(outcomes)] = "ok" THEN 0
    ELSE 1 + FailedSinceLastOk(SubSeq(outcomes, 1, Len(outcomes) - 1))

\* C40: consecutive_push_failures is in every state the number of failed
\* pushes since the last successful push (or since the start), and a step in
\* which no push is made, of a skipped, failed, dry-run or remote-less
\* cycle or of record_success, leaves it as it is.
C40_PushFailureCount ==
    /\ [](consecutive_push_failures = FailedSinceLastOk(pushes))
    /\ [][pushes' = pushes => consecutive_push_failures' = consecutive_push_failures]_vars
    /\ [][(total_cycles' # total_cycles /\ (dry_run \/ ~remote
                                             \/ successful_cycles' = successful_cycles))
            => pushes' = pushes]_vars

\* C40 witness: a push succeeded, the next failed, then a cycle failed and
\* the push of the fourth cycle failed as well: the counter stands at 2.
C40_Witness ==
    /\ pushes = <<"ok", "failed", "failed">>
    /\ consecutive_push_failures = 2
    /\ successful_cycles = 3
    /\ failed_cycles = 1
    /\ consecutive_failures = 0
    /\ cyc[3].fails = 1

\* The step of a cycle whose commit succeeded and whose push then failed.
PushFailedStep(c, t) ==
    \E push \in PushResults, readable \in BOOLEAN :
        /\ push.raised
        /\ ~dry_run
        /\ remote
        /\ DocumentSucceeds(c, t, push, readable)

\* C15 (as stated): when the commit of a cycle succeeds and the push then
\* fails, for any reason, GH013 included, the cycle is still recorded as a
\* success, its memory row is kept, failed_cycles and consecutive_failures
\* are unchanged, and consecutive_push_failures increases by exactly 1.
C15_PushFailureChangesNoStreak ==
    [][\A c \in Cycles, t \in Repository :
          PushFailedStep(c, t) =>
              /\ successful_cycles' = successful_cycles + 1
              /\ NewRow(t.snippet, t.doc_type) \in rows'
              /\ failed_cycles' = failed_cycles
              /\ consecutive_failures' = consecutive_failures
              /\ consecutive_push_failures' = consecutive_push_failures + 1]_vars

\* C15 (amended): when the commit of a cycle succeeds and the push then
\* fails, for any reason, GH013 included, the cycle is still recorded as a
\* success, its memory row is kept, failed_cycles is unchanged,
\* consecutive_failures is not increased but reset to 0 as by every success,
\* and consecutive_push_failures increases by exactly 1.
C15_PushFailureIsNoCycleFailure ==
    [][\A c \in Cycles, t \in Repository :
          PushFailedStep(c, t) =>
              /\ successful_cycles' = successful_cycles + 1
              /\ total_cycles' = total_cycles + 1
              /\ NewRow(t.snippet, t.doc_type) \in rows'
              /\ rows \subseteq rows'
              /\ failed_cycles' = failed_cycles
              /\ consecutive_failures' = 0
              /\ consecutive_push_failures' = consecutive_push_failures + 1]_vars

\* C15 witness: after a failed cycle, a cycle committed, its push was
\* rejected with GH013, and it is recorded as a success with its row kept.
C15_Witness ==
    /\ failed_cycles = 1
    /\ successful_cycles = 1
    /\ consecutive_failures = 0
    /\ consecutive_push_failures = 1
    /\ \E q \in lastPush : Contains(q.error, "GH013")
    /\ \E c \in Cycles : /\ cyc[c].succ
                          /\ cyc[c].pc = "done"
                          /\ c > 1
                          /\ cyc[c - 1].fails = 1
                          /\ \A t \in cyc[c].target :
                                \E r \in rows : /\ r.code_hash = hash_code(t.snippet.source)
                                                /\ r.doc_type = t.doc_type

\* C16 (as stated): after a failed push an alert is sent at once, whatever
\* consecutive_push_failures is, when the error message contains GH013 or the
\* word secret in any letter case; for every other push error an alert is
\* sent only when consecutive_push_failures has reached alert_after_failures.
C16_PushAlertPolicy ==
    notifier =>
        \A q \in lastPush :
            (q.alert # "none") =
                (IsSecretViolation(q.error) \/ q.failures >= alert_after_failures)

\* C16 (amended): after a failed push an alert is sent only when a notifier
\* is configured and alert_on_push_failure is set; then it is sent at once,
\* whatever consecutive_push_failures is, as a secret-scanning violation when
\* the error message contains GH013 or the word secret in any letter case, and
\* for every other push error only when consecutive_push_failures has reached
\* alert_after_failures.
C16_PushAlertPolicyWhenEnabled ==
    \A q \in lastPush :
        /\ q.failures = consecutive_push_failures
        /\ IF notifier /\ alert_on_push_failure
           THEN /\ (q.alert = "secret_scanning") = IsSecretViolation(q.error)
                /\ (q.alert = "error") =
                      (~IsSecretViolation(q.error) /\ q.failures >= alert_after_failures)
           ELSE q.alert = "none"

\* C16 witness: with the alerts of push failures enabled and
\* alert_after_failures = 3, a first failed push with "Secret" in its message
\* was alerted at once.
C16_Witness ==
    /\ notifier
    /\ alert_on_push_failure
    /\ alert_after_failures = 3
    /\ \E q \in lastPush : /\ Contains(q.error, "Secret")
                            /\ q.failures = 1
                            /\ q.alert = "secret_scanning"

\* C18: emitting a lifecycle event or a stats snapshot never raises, with or
\* without a publisher and whether or not the memory store can be read; so
\* the outcome recorded for a cycle is never changed by a failure to publish:
\* a cycle recorded as a success has no failure recorded for it.
C18_EmissionNeverRaises ==
    \A c \in Cycles :
        /\ ~cyc[c].statsRaised
        /\ cyc[c].succ => cyc[c].fails = 0

\* C12: before a cycle starts the supervisor waits 0 seconds when
\* consecutive_failures is 0 or 1, and otherwise 60, 120, 240, 300, 300, ...
\* seconds for 2, 3, 4, 5, 6, ... consecutive failures: min(300,
\* 30 * 2^(consecutive_failures - 1)), never more than 300 seconds.
C12_BackoffSchedule ==
    /\ [](\A c \in Cycles :
            cyc[c].pc = "backoff" =>
                /\ cyc[c].sleep = CASE consecutive_failures = 2 -> 60
                                    [] consecutive_failures = 3 -> 120
                                    [] consecutive_failures = 4 -> 240
                                    [] OTHER -> 300
                /\ cyc[c].sleep = Min(300, 30 * 2 ^ (consecutive_failures - 1))
                /\ cyc[c].sleep <= 300
                /\ consecutive_failures >= 2)
    /\ [][\A c \in Cycles :
            (cyc[c].pc = "start" /\ cyc'[c].pc # "start") =>
                (cyc'[c].pc = "ensure" /\ cyc'[c].sleep = 0) = (consecutive_failures <= 1)]_vars

\* C12 witness: after a cycle that started at once with one failure recorded,
\* a later cycle is sleeping the capped 300 seconds with six.
C12_Witness ==
    /\ consecutive_failures = 6
    /\ total_cycles = 6
    /\ \E c \in Cycles : cyc[c].pc = "backoff" /\ cyc[c].sleep = 300

\* C1: at every moment at most one documentation cycle is executing, also
\* when a cycle outlasts the 1800-second wait of the scheduler callback.
C1_OneCycleAtATime ==
    Cardinality({c \in Cycles : Executing(c)}) <= 1

\* C6: total_cycles = successful_cycles + failed_cycles + skipped_cycles in
\* every state, and none of the four counters ever decreases.
C6_CountersAddUp ==
    /\ [](total_cycles = successful_cycles + failed_cycles + skipped_cycles)
    /\ [][/\ total_cycles' >= total_cycles
          /\ successful_cycles' >= successful_cycles
          /\ failed_cycles' >= failed_cycles
          /\ skipped_cycles' >= skipped_cycles]_vars

\* C6 witness: each of the three outcomes has been recorded, one of the
\* failures by the callback after its timeout.
C6_Witness ==
    /\ successful_cycles >= 1
    /\ failed_cycles >= 1
    /\ skipped_cycles >= 1
    /\ \E c \in Cycles : cyc[c].timedOut

\* C7: immediately after a cycle is recorded as a success,
\* consecutive_failures is 0, consecutive_ollama_failures is 0,
\* repos_exhausted is empty and the failure backoff is 0 seconds.
C7_SuccessResetsStreaks ==
    [][successful_cycles' = successful_cycles + 1 =>
          /\ consecutive_failures' = 0
          /\ consecutive_ollama_failures' = 0
          /\ repos_exhausted' = {}
          /\ get_backoff_seconds(consecutive_failures') = 0]_vars

\* C7 witness: a success was recorded after failures, the streaks are zero
\* and the next cycle has gone from its start to the readiness check with no
\* backoff.
C7_Witness ==
    /\ successful_cycles >= 1
    /\ failed_cycles >= 2
    /\ consecutive_failures = 0
    /\ consecutive_ollama_failures = 0
    /\ \E c \in Cycles : cyc[c].pc = "ensure" /\ (c > 1 /\ cyc[c - 1].pc = "done")

\* C8: an exception raised inside a cycle is caught and recorded as a failed
\* cycle with a reason, and the step that raises or records it leaves running
\* and the scheduler as they are.
C8_ExceptionBecomesFailure ==
    /\ [](\A c \in Cycles :
            (cyc[c].exc /\ cyc[c].pc \in {"done", "raised"} /\ cbCycle # c)
                => /\ cyc[c].fails >= 1
                   /\ failed_cycles >= 1
                   /\ last_failure_reason # "")
    /\ [][(failed_cycles' # failed_cycles
             \/ \E c \in Cycles : cyc'[c].exc /\ ~cyc[c].exc)
            => running' = running /\ schedulerUp' = schedulerUp]_vars

\* C8 witness: the target search of one cycle raised and was recorded as a
\* failure, the daemon is still running, and a later fire has run a cycle.
C8_Witness ==
    /\ running
    /\ schedulerUp
    /\ \E c \in Cycles :
         /\ cyc[c].pc = "raised"
         /\ cyc[c].fails = 1
         /\ c < Len(cyc)
         /\ cyc[c + 1].pc = "done"
    /\ successful_cycles >= 1
    /\ failed_cycles >= 1

\* C9: when a cycle outlasts the 30-minute timeout a failure is recorded for
\* it and the cycle is aborted: after the timeout it makes no further LLM
\* call, commit, memory write or statistics update.
C9_TimeoutAbortsCycle ==
    \A c \in Cycles :
        cyc[c].timedOut => cyc[c].fails >= 1 /\ cyc[c].late = {}

\* A step of the switch's loop: its sleep is rescheduled.
SwitchChecks == swNext' # swNext

\* C17: at each 5-minute check of the dead man's switch an alert is sent
\* exactly when more than 45 minutes have passed since the later of
\* last_success and the daemon start and no alert has been sent since the
\* last successful cycle; so between two consecutive successes (or between
\* start and the first success) at most one alert is sent, and the switch
\* changes no cycle state. Checked for a daemon with a notifier.
C17_DeadMansSwitch ==
    /\ [](\A i, j \in 1 .. Len(swAlerts) : swAlerts[i] = swAlerts[j] => i = j)
    /\ [][/\ ~SwitchChecks => swAlerts' = swAlerts
          /\ SwitchChecks =>
                /\ UNCHANGED <<dmVars, memVars, pushVars, running, loop>>
                /\ swAlerts' \in {swAlerts, Append(swAlerts, successful_cycles)}
                /\ notifier =>
                     (swAlerts' # swAlerts <=>
                        /\ SwitchAge > 45 * 60
                        /\ \A i \in 1 .. Len(swAlerts) : swAlerts[i] # successful_cycles)]_vars

\* C17 witness: the switch alerted before the first success, the latch was
\* released by that success, and the switch alerted again 45 minutes later.
C17_Witness ==
    /\ notifier
    /\ swAlerts = <<0, 1>>
    /\ alerted

C25_SkipExhaustsEveryRepo ==
    \A c \in Cycles : \A skip \in cyc[c].skipped : enabled_repos \subseteq skip.exhausted

\* The step in which the search of cycle c has found no target and the
\* cycle records its skip.
SkipStep(c) == cyc[c].skipped = {} /\ cyc'[c].skipped # {}

SuccessStep(c) == ~cyc[c].succ /\ cyc'[c].succ

\* C28: in dry-run mode a cycle whose LLM generation succeeds is recorded as
\* a success and changes nothing outside the process: it writes no devlog
\* file, makes no commit, makes no push and inserts no memory row, so
\* should_document gives the same answers after the cycle as before it.
C28_DryRunChangesNothing ==
    [][\A c \in Cycles :
          (dry_run /\ SuccessStep(c)) =>
              /\ successful_cycles' = successful_cycles + 1
              /\ total_cycles' = total_cycles + 1
              /\ UNCHANGED <<failed_cycles, skipped_cycles>>
              /\ UNCHANGED <<rows, recorded, devlog, pushVars>>
              /\ \A t \in Repository, days \in {0, DefaultRedocumentAfterDays} :
                    should_document(t.snippet, t.doc_type, days)'
                        = should_document(t.snippet, t.doc_type, days)]_vars

\* C28 witness: two dry-run cycles documented the same function and both
\* are recorded as successes; nothing was written, committed or pushed.
C28_Witness ==
    /\ dry_run
    /\ remote
    /\ successful_cycles = 2
    /\ rows = {}
    /\ devlog.files = {}
    /\ devlog.commits = <<>>
    /\ lastPush = {}
    /\ pushes = <<>>
    /\ \E c \in Cycles : c > 1 /\ cyc[c].succ /\ cyc[c].target = cyc[c - 1].target
                           /\ cyc[c - 1].succ /\ cyc[c].generated = 1

\* The flavors a search has to visit, in order: the drawn flavor unless it is
\* a summary, then the flavors the weight map names, in map order, without
\* the drawn one and without the summaries.
ExpectedOrder(q) ==
    LET drawn == CHOOSE f \in q.selected_type : TRUE
        keys == [i \in DOMAIN q.type_weights |-> q.type_weights[i][1]]
    IN  (IF drawn \in SummaryTypes THEN <<>> ELSE <<drawn>>)
        \o SelectSeq(keys, LAMBDA k : k \in DocTypeValues \ SummaryTypes /\ k # drawn)

\* The targets of a flavor in a repository that may be documented now.
ToDocument(doc_type, repo) ==
    {i \in DOMAIN find_targets(doc_type, repo) :
        should_document(find_targets(doc_type, repo)[i].snippet, doc_type,
                        DefaultRedocumentAfterDays)}

RepoIndex(q, name) == CHOOSE i \in DOMAIN q.repos : q.repos[i].name = name

\* C27: a target search visits the drawn flavor first, then the other flavors
\* of the weight map in map order, each flavor once and never a summary
\* flavor; the target it returns is the first one, over the flavors in this
\* order, the enabled repositories in configuration order and the targets of
\* a repository by rank, that should_document accepts, and it comes from an
\* enabled repository; it returns none only when no such target exists.
C27_SearchOrder ==
    \A q \in search : \A r \in q.result :
        ~r.raised =>
            /\ Len(r.tried) <= Len(ExpectedOrder(q))
            /\ r.tried = SubSeq(ExpectedOrder(q), 1, Len(r.tried))
            /\ \A i, j \in DOMAIN r.tried : i # j => r.tried[i] # r.tried[j]
            /\ \A i \in DOMAIN r.tried : r.tried[i] \notin SummaryTypes
            /\ r.target = {} =>
                  /\ r.tried = ExpectedOrder(q)
                  /\ \A i \in DOMAIN r.tried, k \in DOMAIN q.repos :
                        q.repos[k].enabled => ToDocument(r.tried[i], q.repos[k].name) = {}
            /\ \A t \in r.target :
                  LET at == RepoIndex(q, t.snippet.repo)
                      rank == CHOOSE i \in DOMAIN find_targets(t.doc_type, t.snippet.repo) :
                                  find_targets(t.doc_type, t.snippet.repo)[i] = t
                  IN  /\ r.tried # <<>>
                      /\ t.doc_type = r.tried[Len(r.tried)]
                      /\ q.repos[at].enabled
                      /\ t \in {find_targets(t.doc_type, t.snippet.repo)[i] :
                                   i \in DOMAIN find_targets(t.doc_type, t.snippet.repo)}
                      /\ rank \in ToDocument(t.doc_type, t.snippet.repo)
                      /\ \A i \in ToDocument(t.doc_type, t.snippet.repo) : rank <= i
                      /\ \A k \in 1 .. at - 1 :
                            q.repos[k].enabled => ToDocument(t.doc_type, q.repos[k].name) = {}
                      /\ \A i \in 1 .. Len(r.tried) - 1, k \in DOMAIN q.repos :
                            q.repos[k].enabled => ToDocument(r.tried[i], q.repos[k].name) = {}

\* A search that drew a summary flavor, found nothing to document under the
\* first flavor of the map in the enabled repository, passed over a target of
\* a disabled repository, and returned a target of the next flavor.
C27_Witness ==
    \E q \in search : \E r \in q.result : \E t \in r.target :
        /\ q.selected_type = {"weekly_summary"}
        /\ r.tried = <<"function_doc", "class_doc">>
        /\ t.doc_type = "class_doc"
        /\ \E k \in DOMAIN q.repos :
              /\ ~q.repos[k].enabled
              /\ ToDocument("function_doc", q.repos[k].name) # {}

(***************************************************************************)
(* Claims about the LLM client                                             *)
(***************************************************************************)

\* The positions of the generate requests in the log, and the attempt
\* (counted from 0) a position belongs to.
GenerateAt == {i \in DOMAIN llm.log : llm.log[i].kind = "generate"}

AttemptOf(i) == Cardinality({j \in GenerateAt : j < i})

\* C29: generate_with_retry calls generate at most max_retries times; the
\* first successful call ends it, with the result returned and nothing sent
\* afterwards; after a timeout or a connection failure that is followed by
\* another attempt it sleeps (attempt+1)*retry_delay before that attempt; and
\* when the attempts are used up without a success it raises an LLM error and
\* does not return.
C29_RetryLoop ==
    /\ [](llm.pc # "idle" =>
            /\ Cardinality(GenerateAt) <= llm.max_retries
            /\ \A i \in GenerateAt :
                  llm.log[i].outcome = "ok" => i = Len(llm.log) /\ llm.pc = "returned"
            /\ llm.pc = "returned" =>
                  llm.log # <<>> /\ llm.log[Len(llm.log)].outcome = "ok"
            /\ \A i \in GenerateAt :
                  /\ llm.log[i].outcome \in {"OllamaTimeoutError", "OllamaConnectionError"}
                  /\ \E j \in GenerateAt : j > i
                  => /\ llm.log[i + 1].kind = "sleep"
                     /\ llm.log[i + 1].seconds = (AttemptOf(i) + 1) * llm.retry_delay
                     /\ i + 2 \in GenerateAt
            /\ llm.pc = "raised" => llm.error # {} /\ llm.error \subseteq LlmErrors)
    /\ [][llm.pc = "loop" /\ llm.attempt >= llm.max_retries => llm'.pc = "raised"]_vars

\* A call with max_retries = 3 that timed out, slept 2 s, could not connect,
\* slept 4 s, and returned the result of the third attempt.
C29_Witness ==
    /\ llm.pc = "returned"
    /\ llm.max_retries = 3
    /\ Len(llm.log) = 5
    /\ llm.log[1].outcome = "OllamaTimeoutError"
    /\ llm.log[2].seconds = 2
    /\ llm.log[3].outcome = "OllamaConnectionError"
    /\ llm.log[4].seconds = 4
    /\ llm.log[5].outcome = "ok"

\* C30: after a model_oom failure inside generate_with_retry the model is
\* unloaded and reloaded with a context window of at most 8192, and the
\* generate request that follows the recovery asks for a context window of
\* at most 8192 as well.
C30_RetryWithReducedContext ==
    \A i \in GenerateAt :
        llm.log[i].outcome = "OllamaModelError" /\ Len(llm.log) >= i + 3
            => /\ llm.log[i + 1].kind = "unload"
               /\ llm.log[i + 3].kind = "reload"
               /\ llm.log[i + 3].num_ctx <= ReducedCtxCap
               /\ i + 4 \in GenerateAt => llm.log[i + 4].num_ctx <= ReducedCtxCap

\* The generation of cycle c has ended with OllamaConnectionError and the
\* cycle handles it in this step.
ConnectionLostStep(c) ==
    /\ cyc[c].pc = "generate"
    /\ llm.pc = "raised"
    /\ llm.cycle = c
    /\ llm.error = {"OllamaConnectionError"}
    /\ cyc'[c].pc # "generate"

\* C31: when the LLM cannot be reached during a cycle, at the readiness check
\* or during the generation, the cycle enters the Ollama wait and is not
\* recorded as a failed cycle: failed_cycles and consecutive_failures keep
\* their values.
C31_ConnectionLossIsOutage ==
    [][\A c \in Cycles :
          \/ cyc[c].pc = "ensure" /\ cyc'[c].pc # "ensure" /\ cyc'[c].pc # "find"
          \/ ConnectionLostStep(c)
          => /\ cyc'[c].pc = "ollama_wait"
             /\ failed_cycles' = failed_cycles
             /\ consecutive_failures' = consecutive_failures]_vars

LaterToday(now_utc) ==
    {i \in 1 .. Len(daily_times) :
        /\ Date(daily_times[i]) = Date(ToLocal(now_utc))
        /\ ToUTC(daily_times[i]) > now_utc}

\* C19: for every value of now, get_next_fire_time returns the earliest
\* timestamp of the cached schedule of the current local day that is strictly
\* later than now; when no such timestamp remains it returns the first
\* timestamp of a schedule generated for the next day; the returned fire time
\* is always strictly later than now.
C19_NextFireTime ==
    \A f \in fired :
        /\ f.result # {}
        /\ \A r \in f.result :
              /\ r > f.now
              /\ IF LaterToday(f.now) # {}
                 THEN \A i \in LaterToday(f.now) : r <= ToUTC(daily_times[i])
                 ELSE /\ r = ToUTC(daily_times[1])
                      /\ Date(daily_times[1]) = Date(ToLocal(f.now)) + 1

\* C39 (as stated): a call of get_next_fire_time made while it is still the
\* local day before the cached schedule's day, that is after today's slots
\* were used up and the schedule of tomorrow was generated, generates no
\* schedule: the cache stays as it is, the call returns the first timestamp
\* of that schedule of tomorrow and no fire time of today.
C39_DayGeneratedOnce ==
    [][(daily_times # <<>> /\ current_day = {Date(ToLocal(tnow')) + 1})
          => /\ daily_times' = daily_times
             /\ current_day' = current_day
             /\ \A f \in fired' :
                   /\ f.result = {ToUTC(daily_times[1])}
                   /\ \A r \in f.result : Date(ToLocal(r)) # Date(ToLocal(f.now))]_vars

\* C20: in every generated daily schedule the timestamps are sorted ascending
\* and any two distinct timestamps are at least min_gap_minutes apart, for
\* every sequence of random draws.
C20_SortedAndSpaced ==
    \A i, j \in 1 .. Len(daily_times) :
        i < j =>
            /\ daily_times[i].wall <= daily_times[j].wall
            /\ daily_times[j].wall - daily_times[i].wall >= min_gap_minutes * 60
            /\ Date(daily_times[i]) = Date(daily_times[j])

\* C20 witness: for a Sunday, where three times are wanted, the draws gave
\* two times exactly 30 minutes apart and then only rejected candidates.
C20_Witness ==
    /\ min_gap_minutes = 30
    /\ Len(daily_times) = 2
    /\ Weekday(Date(daily_times[1])) = 6
    /\ daily_times[2].wall - daily_times[1].wall = 30 * 60

\* C21: for every configuration with min_gap * max_commits <= 24 * 60 minus
\* the minutes of the avoided hours, the number of timestamps of a generated
\* daily schedule is at least floor(min_commits * weekend_factor) and at most
\* max_commits, where weekend_factor is weekend_reduction (0.7) on Saturday
\* and Sunday and 1 on other days, for every sequence of random draws.
C21_CountWithinBounds ==
    (/\ current_day # {}
     /\ min_gap_minutes * max_commits <= 24 * 60 - 60 * Cardinality(avoid_hours))
    => \A day \in current_day :
          /\ Len(daily_times) <= max_commits
          /\ Len(daily_times) >= IF Weekday(day) >= 5
                                 THEN (min_commits * 7) \div 10
                                 ELSE min_commits

\* C22: in the flat sequence the schedule preview returns over several days
\* the entries are sorted ascending and every two entries are at least
\* min_gap_minutes apart, the last entry of one day and the first entry of
\* the next day included.
C22_PreviewSortedAndSpaced ==
    \A p \in preview :
        \A i, j \in 1 .. Len(p.entries) :
            i < j => ToUTC(p.entries[j].time) - ToUTC(p.entries[i].time)
                        >= min_gap_minutes * 60

\* round(tenths / 10) of Python: to the nearest integer, a half to the even one.
RoundTenths(tenths) ==
    LET q == tenths \div 10
        r == tenths % 10
    IN  IF r < 5 THEN q
        ELSE IF r > 5 THEN q + 1
        ELSE IF q % 2 = 0 THEN q ELSE q + 1

\* C33: for a Saturday or a Sunday the target number of commits is
\* max(3, round(N * weekend_reduction)) with weekend_reduction = 0.7, N being
\* the value drawn for the day (N = 18 gives 13); for the other days it is N.
C33_WeekendTarget ==
    \A q \in counted : \A n \in q.result :
        IF Weekday(q.day) >= 5
        THEN n = IF RoundTenths(q.drawn_count * 7) > 3
                 THEN RoundTenths(q.drawn_count * 7) ELSE 3
        ELSE n = q.drawn_count

(***************************************************************************)
(* Claims about the scorer                                                 *)
(***************************************************************************)

\* The sum of the six weighted sub-scores, before the pattern bonus.
WeightedBase(r) ==
    r.complexity_score + r.length_score + r.nesting_score + r.parameter_score
    + r.churn_score + r.novelty_score

\* C23: for all inputs (metrics, git statistics, decorators, async flag,
\* source text) the total of the scorer is in [0, 100], and the sum of the
\* six weighted sub-scores before the pattern bonus is at most 100.
C23_ScoreWithinBounds ==
    \A q \in scored : \A r \in q.result :
        /\ r.total >= 0
        /\ r.total <= 100 * Unit
        /\ WeightedBase(r) <= 100 * Unit

(***************************************************************************)
(* Claims about the configuration                                          *)
(***************************************************************************)

\* C34: every setting of the loaded configuration has the value of the
\* highest source that defines it, in the order explicit overrides,
\* environment variables, YAML files, defaults; so an environment variable
\* wins over the YAML value of the same setting.
C34_Precedence ==
    \A q \in loaded : \A settings \in q.result : \A path \in SettingPaths :
        ValueAt(settings, path) =
            {IF path \in q.overrides THEN "overrides"
             ELSE IF path \in q.env THEN "env"
             ELSE IF path \in q.yaml THEN "yaml"
             ELSE "default"}

(***************************************************************************)
(* Claims about the memory                                                 *)
(***************************************************************************)

\* C2: after record_documentation(s, f), should_document(s, f, cooldown) is
\* false for every cooldown (0 included), whatever rows are added later and
\* however much time passes.
C2_RecordedIsBlocked ==
    \A p \in recorded : \A c \in Cooldowns : ~should_document(p[1], p[2], c)

\* C2 witness: a recorded pair was asked about with cooldown 0, after a later
\* record and after time has passed, and the answer was false.
C2_Witness ==
    \E q \in lastCheck :
        /\ <<q.snippet, q.doc_type>> \in recorded
        /\ q.cooldown = 0
        /\ q.result = FALSE
        /\ Cardinality(rows) >= 2
        /\ \E r \in rows : /\ r.code_hash = hash_code(q.snippet.source)
                           /\ r.doc_type = q.doc_type
                           /\ r.id = 1
                           /\ r.documented_at < now

\* The specification's reading of should_document: (a) a row with the same
\* code_hash and doc_type, (b) the newest row of the entity identity
\* (source_file, function_name, class_name, doc_type), absent names included,
\* is younger than the cooldown.
SameHashAndType(s, f) ==
    \E r \in rows : r.code_hash = hash_code(s.source) /\ r.doc_type = f

IdentityRows(s, f) ==
    {r \in rows : <<r.source_file, r.function_name, r.class_name, r.doc_type>>
                  = <<s.file_path, s.function_name, s.class_name, f>>}

NewestIsYounger(s, f, c) ==
    /\ IdentityRows(s, f) # {}
    /\ now - SetMax({r.documented_at : r \in IdentityRows(s, f)}) < c

\* C3: for every snippet (with or without a function name or a class name),
\* flavor and store content, should_document is false exactly when (a) or (b).
C3_ExactlyHashOrCooldown ==
    \A s \in CodeSnippets, f \in DocTypes, c \in Cooldowns :
        should_document(s, f, c) = ~(SameHashAndType(s, f) \/ NewestIsYounger(s, f, c))

\* C4: record_documentation(s, f1) leaves should_document(s, f2, c) unchanged
\* for every flavor f2 other than f1 and every cooldown c.
C4_OtherFlavorUnchanged ==
    [][\A s \in CodeSnippets, f1 \in DocTypes :
          RecordDocumentation(s, f1) =>
              \A f2 \in DocTypes \ {f1}, c \in Cooldowns :
                  should_document(s, f2, c)' = should_document(s, f2, c)]_vars

\* C4 witness: a snippet is recorded under one flavor only, and a call for the
\* other flavor still answers true.
C4_Witness ==
    \E q \in lastCheck :
        /\ q.result = TRUE
        /\ \E f1 \in DocTypes \ {q.doc_type} : <<q.snippet, f1>> \in recorded
        /\ <<q.snippet, q.doc_type>> \notin recorded

\* The entity of s under f was last documented 30 days ago, and the source of
\* s has a code_hash no row of that flavor holds.
EditedThirtyDaysLater(s, f) ==
    /\ IdentityRows(s, f) # {}
    /\ now - SetMax({r.documented_at : r \in IdentityRows(s, f)}) = 30
    /\ ~SameHashAndType(s, f)

\* C5 (as stated): entity documented 30 days ago, new code_hash, cooldown 90:
\* should_document returns true.
C5_NewHashIgnoresCooldown ==
    \A s \in CodeSnippets, f \in DocTypes :
        EditedThirtyDaysLater(s, f)
            => should_document(s, f, DefaultRedocumentAfterDays)

\* C5 (amended): for an entity with a function name documented 30 days ago
\* whose code_hash is new, should_document with cooldown 90 returns false; with
\* a new code_hash it returns true once the newest row of the entity is at
\* least 90 days old.
C5_NewHashStillCoolsDown ==
    \A s \in CodeSnippets, f \in DocTypes :
        (s.function_name # NULL /\ ~SameHashAndType(s, f) /\ IdentityRows(s, f) # {})
            => LET age == now - SetMax({r.documented_at : r \in IdentityRows(s, f)})
               IN  /\ age = 30 => ~should_document(s, f, DefaultRedocumentAfterDays)
                   /\ age >= 90 => should_document(s, f, DefaultRedocumentAfterDays)

\* C5 witness: the edited function is asked about 30 days after its entity
\* was documented, with cooldown 90, and the answer is false.
C5_Witness ==
    \E q \in lastCheck :
        /\ q.snippet.function_name # NULL
        /\ EditedThirtyDaysLater(q.snippet, q.doc_type)
        /\ q.cooldown = DefaultRedocumentAfterDays
        /\ q.result = FALSE

====
